---------------------------- MODULE Spec2Model ----------------------------
(***************************************************************************)
(* A model of the protocol-session layer of go-rod: the hijack router, the *)
(* domain-state cache, the session (page) cache and the per-page           *)
(* execution-context resolver with its helper cache.                       *)
(*                                                                         *)
(* Strings that the code inspects character by character (URL patterns,    *)
(* URLs) are sequences of one-character strings.  Remote object ids and    *)
(* session ids are positive integers handed out by the remote in           *)
(* increasing order; 0 stands for the empty id "".                         *)
(***************************************************************************)
EXTENDS Integers, Sequences, FiniteSets, TLC

\* ------------------------------------------------------------------ bounds

\* paused requests handled by the router in one run
MaxReq == 1
\* concurrent callers of EnableDomain / DisableDomain
MaxCallers == 2
\* concurrent callers of Browser.PageFromTarget
MaxAttachers == 2
\* concurrent callers of Page.getJSCtxID / Page.ensureJSHelper
MaxEvaluators == 2
\* object ids the remote hands out, calls of evaluate / ensureJSHelper, calls
\* of unsetJSCtxID
MaxObjects == 4
MaxCalls == 3
MaxUnsets == 1
\* rounds of Evaluate's loop that are told apart (the last one stands for "or more")
MaxAttempts == 2
\* calls of HijackRouter.Add and of HijackRouter.Remove in one run
MaxAdds == 2
MaxRemoves == 1
\* calls of Browser.Call made one after the other
MaxWrites == 3
\* streams of Browser.Event, and events the transport produces
MaxSubscribers == 2
MaxEvents == 2
\* events the transport produces while eachEvent is in use
MaxEmits == 2
\* Fetch events the transport produces while HandleAuth is in use
MaxAuthEvents == 2
MaxPatternLen == 3
\* concurrent callers of Page.ElementByJS, and the invocations of the function
\* given to utils.Retry that are told apart
MaxWaiters == 2
MaxInvocations == 3
MaxURLLen == 3

\* the limit given to NewPagePool and the callers of PagePool.Get
PoolLimit == 3
MaxGetters == 4

\* keys of the keyboard, and the actions recorded in one KeyActions
MaxKeys == 2
MaxKeyActions == 3

\* contexts derived from the browser's own, and clones made by the chained
\* Context / Timeout / CancelTimeout / WithCancel
MaxCtxs == 4
MaxClones == 3

\* Fetch.requestPaused events the transport produces for a router that is run
MaxPaused == 3

\* goroutines that each run one operation taking locks of one browser and page
MaxLockers == 2

\* branches of one RaceContext, and the rounds of its Do that are told apart
\* (the last one stands for "or more")
MaxBranches == 2
MaxRounds == 2

None == "none"

\* ------------------------------------------------------------------- state

VARIABLES
    states         \* Browser.states (sync.Map): present keys |-> stored value

VARIABLES
    dth,           \* per caller: the call of EnableDomain / DisableDomain it is in
    pend,          \* per caller: the Browser.set that follows a call the transport answered
    remoteEnabled  \* the remote's own state: the (session, domain) pairs enabled in the browser

VARIABLES
    handlers,        \* HijackRouter.handlers
    enablePatterns,  \* HijackRouter.enable.Patterns
    hj,              \* per paused request: the goroutine of its walk and its Hijack context
    fetchCalls,      \* per request id: the resolution calls sent to the remote, in order
    onError,         \* per request id: number of Hijack.OnError invocations
    invoked,         \* per request id: the indexes of the handlers invoked, in order
    adds,            \* number of Add calls so far
    removes          \* number of Remove calls so far

VARIABLES
    defaultDevice,  \* Browser.defaultDevice
    targetsLock,    \* Browser.targetsLock: the caller holding it, 0 when free
    ath,            \* per caller of PageFromTarget: where it is and what it holds
    attachCalls,    \* per target id: Target.attachToTarget calls sent to the remote
    nextSession     \* the remote: the session id the next successful attach returns

VARIABLES
    isIframe,       \* Page.IsIframe(): the page is the clone made by Element.Frame
    jsCtxID,        \* *Page.jsCtxID, 0 for ""
    jsCtxLock,      \* Page.jsCtxLock: the caller holding it, 0 when free
    helpers,        \* Page.helpers: nil, or context id -> helper name -> function id
    helpersLock,    \* Page.helpersLock: the caller holding it, 0 when free
    eth,            \* per caller of getJSCtxID / ensureJSHelper: where it is
    nextObj,        \* the remote: the object id its next answer carries
    evals,          \* calls of evaluate / ensureJSHelper so far
    unsets,         \* calls of unsetJSCtxID so far
    resolvedAt,     \* the value of unsets when getJSCtxID last published an id
    roundTrips,     \* resolutions getJSCtxID asked of the remote
    failed          \* the remote has answered a resolution with an error

VARIABLES
    last,           \* per key: the params and the number of the latest successful Browser.Call
    writes,         \* calls of Browser.Call made one after the other so far
    loaded          \* the outcome of the latest LoadState since the last Browser.Call

VARIABLES
    published,      \* events the transport has produced and the bus has published
    subs            \* per stream of Browser.Event: the subscription, the relay, the consumer

VARIABLES
    bp,             \* per caller of Browser.Page: where it is and what it holds
    nextTarget,     \* the remote: the target id the next Target.createTarget returns
    closeCalls      \* per target id: Target.closeTarget calls sent to the remote

VARIABLE
    pm              \* a handler being added: its pattern, its regexp and the
                    \* URL its regexp was last asked about

VARIABLES
    retry,             \* per caller of Page.ElementByJS: the utils.Retry it is in
    scope           \* per caller: its page's context (p.ctx) has been cancelled

VARIABLES
    wt,             \* the caller of eachEvent: the wait function, its stream, its restore
    emitted         \* the events the transport has produced, in order

VARIABLES
    ha,             \* the caller of Browser.HandleAuth and of the function it returns
    waits,          \* the streams of waitPaused and waitAuth
    authEmitted,    \* the Fetch events the transport has produced, in order
    authCalls       \* the calls the function HandleAuth returned has made, in order

VARIABLES
    pp,             \* the PagePool channel: its buffered items, 0 for nil
    getters,        \* per caller of PagePool.Get: where it is and the page it holds
    created         \* pages made by the create functions so far

VARIABLES
    pressed,        \* Keyboard.pressed
    ka              \* the KeyActions: its Actions, the Do it is in, the keys pressed
                    \* when Do was called

VARIABLES
    ctxs,           \* the contexts derived so far, context n being ctxs[n]; 0 is
                    \* the context the first object was made with
    clones,         \* the objects: the first one and the clones made from it
    panicked        \* a type assertion on a missing timeoutContextVal has panicked

VARIABLES
    router,         \* a HijackRouter: the stream of its eachEvent and its Run
    walks,          \* per paused request: the goroutine the router's callback started
    pausedEvents    \* Fetch.requestPaused events the transport has produced

VARIABLES
    lockers,        \* per goroutine: the operation it runs, where it is in it, err
    mutexes         \* per mutex: the goroutine that holds it, 0 when free

VARIABLES
    branches,       \* RaceContext.branches: per branch, whether it has a callback
    race,           \* the caller of RaceContext.Do: the round it is in and what it returns
    raceScope       \* the context of the page (rc.page.ctx) has been cancelled

domainVars == <<dth, pend, remoteEnabled>>
raceVars == <<branches, race, raceScope>>
lockVars == <<lockers, mutexes>>
routerVars == <<router, walks, pausedEvents>>
chainVars == <<ctxs, clones, panicked>>
keyVars == <<pressed, ka>>
poolVars == <<pp, getters, created>>
authVars == <<ha, waits, authEmitted, authCalls>>
waitVars == <<wt, emitted>>
untilVars == <<retry, scope>>
patVars == <<pm>>
pageVars == <<bp, nextTarget, closeCalls>>
eventVars == <<published, subs>>
cacheVars == <<last, writes, loaded>>
hijackVars == <<handlers, enablePatterns, hj, fetchCalls, onError, invoked, adds, removes>>
attachVars == <<defaultDevice, targetsLock, ath, attachCalls, nextSession>>

ctxVars == <<isIframe, jsCtxID, jsCtxLock, helpers, helpersLock, eth, nextObj, evals, unsets, resolvedAt,
             roundTrips, failed>>

vars == <<states, domainVars, hijackVars, attachVars, ctxVars, cacheVars, eventVars, pageVars, patVars, untilVars, waitVars, authVars, poolVars, keyVars, chainVars, routerVars, lockVars, raceVars>>

\* What the callers of EnableDomain / DisableDomain, the hijack router and the
\* callers of PageFromTarget leave alone
exceptDomain == <<hijackVars, attachVars, ctxVars, cacheVars, eventVars, pageVars, patVars, untilVars, waitVars, authVars, poolVars, keyVars, chainVars, routerVars, lockVars, raceVars>>
exceptHijack == <<domainVars, attachVars, ctxVars, cacheVars, eventVars, pageVars, patVars, untilVars, waitVars, authVars, poolVars, keyVars, chainVars, routerVars, lockVars, raceVars>>
exceptAttach == <<domainVars, hijackVars, ctxVars, cacheVars, eventVars, pageVars, patVars, untilVars, waitVars, authVars, poolVars, keyVars, chainVars, routerVars, lockVars, raceVars>>
exceptCtx == <<states, domainVars, hijackVars, attachVars, cacheVars, eventVars, pageVars, patVars, untilVars, waitVars, authVars, poolVars, keyVars, chainVars, routerVars, lockVars, raceVars>>
exceptCache == <<domainVars, hijackVars, attachVars, ctxVars, eventVars, pageVars, patVars, untilVars, waitVars, authVars, poolVars, keyVars, chainVars, routerVars, lockVars, raceVars>>
exceptEvents == <<states, domainVars, hijackVars, attachVars, ctxVars, cacheVars, pageVars, patVars, untilVars, waitVars, authVars, poolVars, keyVars, chainVars, routerVars, lockVars, raceVars>>
exceptPage == <<domainVars, hijackVars, ctxVars, cacheVars, eventVars, patVars, untilVars, waitVars, authVars, poolVars, keyVars, chainVars, routerVars, lockVars, raceVars>>
exceptPat == <<states, domainVars, hijackVars, attachVars, ctxVars, cacheVars, eventVars,
               pageVars, untilVars, waitVars, authVars, poolVars, keyVars, chainVars, routerVars, lockVars, raceVars>>
exceptUntil == <<states, domainVars, hijackVars, attachVars, ctxVars, cacheVars, eventVars,
                 pageVars, patVars, waitVars, authVars, poolVars, keyVars, chainVars, routerVars, lockVars, raceVars>>
exceptWait == <<domainVars, hijackVars, attachVars, ctxVars, cacheVars, eventVars,
                pageVars, patVars, untilVars, authVars, poolVars, keyVars, chainVars, routerVars, lockVars, raceVars>>
exceptAuth == <<domainVars, hijackVars, attachVars, ctxVars, cacheVars, eventVars,
                pageVars, patVars, untilVars, waitVars, poolVars, keyVars, chainVars, routerVars, lockVars, raceVars>>

exceptPool == <<states, domainVars, hijackVars, attachVars, ctxVars, cacheVars, eventVars, pageVars, patVars, untilVars, waitVars, authVars, keyVars, chainVars, routerVars, lockVars, raceVars>>

exceptKey == <<states, domainVars, hijackVars, attachVars, ctxVars, cacheVars, eventVars, pageVars, patVars, untilVars, waitVars, authVars, poolVars, chainVars, routerVars, lockVars, raceVars>>

exceptChain == <<states, domainVars, hijackVars, attachVars, ctxVars, cacheVars, eventVars, pageVars, patVars, untilVars, waitVars, authVars, poolVars, keyVars, routerVars, lockVars, raceVars>>

exceptRouter == <<states, domainVars, hijackVars, attachVars, ctxVars, cacheVars, eventVars, pageVars, patVars, untilVars, waitVars, authVars, poolVars, keyVars, chainVars, lockVars, raceVars>>

exceptLock == <<states, domainVars, hijackVars, attachVars, ctxVars, cacheVars, eventVars, pageVars, patVars, untilVars, waitVars, authVars, poolVars, keyVars, chainVars, routerVars, raceVars>>

exceptRace == <<states, domainVars, hijackVars, attachVars, ctxVars, cacheVars, eventVars, pageVars, patVars, untilVars, waitVars, authVars, poolVars, keyVars, chainVars, routerVars, lockVars>>

\* ---------------------------------------------------------- pattern matching

\* regAsterisk.ReplaceAllString(s, "$1.*"): leftmost non-overlapping matches of
\* one character other than a backslash followed by '*'
RECURSIVE ReplaceAsterisk(_)
ReplaceAsterisk(s) ==
    IF Len(s) < 2 THEN s
    ELSE IF s[1] # "\\" /\ s[2] = "*"
         THEN <<s[1], ".", "*">> \o ReplaceAsterisk(SubSeq(s, 3, Len(s)))
         ELSE <<s[1]>> \o ReplaceAsterisk(Tail(s))

\* regBackSlash.ReplaceAllString(s, "$1."): the same for '?'
RECURSIVE ReplaceQuestion(_)
ReplaceQuestion(s) ==
    IF Len(s) < 2 THEN s
    ELSE IF s[1] # "\\" /\ s[2] = "?"
         THEN <<s[1], ".">> \o ReplaceQuestion(SubSeq(s, 3, Len(s)))
         ELSE <<s[1]>> \o ReplaceQuestion(Tail(s))

\* strings.TrimSpace
RECURSIVE TrimLeft(_)
TrimLeft(s) == IF s # <<>> /\ s[1] = " " THEN TrimLeft(Tail(s)) ELSE s

RECURSIVE TrimRight(_)
TrimRight(s) ==
    IF s # <<>> /\ s[Len(s)] = " " THEN TrimRight(SubSeq(s, 1, Len(s) - 1)) ELSE s

TrimSpace(s) == TrimRight(TrimLeft(s))

\* The regular expression source PatternToReg returns.  "\\A" and "\\z" are the
\* two anchors, each one element of the sequence.
PatternToReg(pattern) ==
    IF pattern = <<>> THEN <<>>
    ELSE <<"\\A">>
         \o TrimSpace(ReplaceQuestion(ReplaceAsterisk(<<" ">> \o pattern)))
         \o <<"\\z">>

\* The body of an anchored expression (between \A and \z)
RegBody(re) == SubSeq(re, 2, Len(re) - 1)

\* Length of the atom at the head of a regular expression body: an escaped
\* character takes two elements, anything else one; 0 when no atom starts here
AtomLen(b) ==
    IF b = <<>> THEN 0
    ELSE IF b[1] = "\\" THEN (IF Len(b) >= 2 THEN 2 ELSE 0)
    ELSE IF b[1] \in {"*", "?"} THEN 0
    ELSE IF b[1] \in {"(", ")"} THEN 0     \* no pattern here holds both: a
    ELSE 1                                  \* parenthesis is never closed

\* Number of repetition characters that follow the atom ("*", "?", "*?", "??")
RepLen(b, n) ==
    IF Len(b) > n /\ b[n + 1] \in {"*", "?"}
    THEN (IF Len(b) > n + 1 /\ b[n + 2] = "?" THEN 2 ELSE 1)
    ELSE 0

\* regexp.MustCompile accepts the body: every repetition follows an atom and no
\* repetition follows a repetition
RECURSIVE RegValidBody(_)
RegValidBody(b) ==
    IF b = <<>> THEN TRUE
    ELSE LET n == AtomLen(b)
             r == RepLen(b, n)
         IN  /\ n > 0
             /\ ~(Len(b) > n + r /\ r > 0 /\ b[n + r + 1] \in {"*", "?"})
             /\ RegValidBody(SubSeq(b, n + r + 1, Len(b)))

RegValid(re) == re = <<>> \/ RegValidBody(RegBody(re))

\* The atom at the head of b matches the character c
AtomMatches(b, c) ==
    IF b[1] = "\\" THEN b[2] = c
    ELSE IF b[1] = "." THEN TRUE
    ELSE b[1] = c

\* The body b matches the whole of s
RECURSIVE RegMatchBody(_, _)
RegMatchBody(b, s) ==
    IF b = <<>> THEN s = <<>>
    ELSE LET n    == AtomLen(b)
             r    == RepLen(b, n)
             rest == SubSeq(b, n + r + 1, Len(b))
         IN  IF r = 0
             THEN s # <<>> /\ AtomMatches(b, s[1]) /\ RegMatchBody(rest, Tail(s))
             ELSE IF b[n + 1] = "*"
             THEN \/ RegMatchBody(rest, s)
                  \/ s # <<>> /\ AtomMatches(b, s[1]) /\ RegMatchBody(b, Tail(s))
             ELSE \/ RegMatchBody(rest, s)
                  \/ s # <<>> /\ AtomMatches(b, s[1]) /\ RegMatchBody(rest, Tail(s))

\* regexp.MatchString: the empty expression matches every string (it is not
\* anchored); an anchored one matches the whole string
MatchString(re, s) == IF re = <<>> THEN TRUE ELSE RegMatchBody(RegBody(re), s)

\* All strings over the alphabet A of length lo .. hi
Strings(A, lo, hi) == UNION {[1 .. k -> A] : k \in lo .. hi}

\* Patterns and URLs: every short string over a small alphabet, and the
\* strings of the examples of the documentation
PatternChars == {"a", "*", "?", ".", "("}
URLChars == {"a", "x"}
ExamplePatterns == {<<"/", "f", "o", "o", "/", "*">>, <<"/", "a", "?", "b">>}
ExampleURLs == {<<"/", "f", "o", "o", "/", "b", "a", "r", "/", "b", "a", "z">>,
                <<"/", "f", "o", "o", "l">>, <<"/", "a", "x", "b">>,
                <<"/", "a", "b">>, <<"/", "a", "x", "x", "b">>}
AddPatterns == Strings(PatternChars, 1, MaxPatternLen) \cup ExamplePatterns
RequestURLs == Strings(URLChars, 0, MaxURLLen) \cup ExampleURLs

NotAdded == [pc |-> "idle", pattern |-> <<>>, regexp |-> <<>>, url |-> <<>>,
             matched |-> FALSE]

PatInit == pm = NotAdded

\* HijackRouter.Add: reg := regexp.MustCompile(proto.PatternToReg(pattern)),
\* which panics on an expression that does not compile
Compile(pattern) ==
    /\ pm.pc = "idle"
    /\ LET reg == PatternToReg(pattern)
       IN  pm' = [NotAdded EXCEPT !.pattern = pattern, !.regexp = reg,
                                  !.pc = IF RegValid(reg) THEN "added" ELSE "panic"]
    /\ UNCHANGED exceptPat

\* The walk of a paused request: h.regexp.MatchString(e.Request.URL)
Match(url) ==
    /\ pm.pc = "added"
    /\ pm' = [pm EXCEPT !.pc = "matched", !.url = url,
                        !.matched = MatchString(pm.regexp, url)]
    /\ UNCHANGED exceptPat

PatNext ==
    \/ \E pattern \in AddPatterns : Compile(pattern)
    \/ \E url \in RequestURLs : Match(url)


\* ------------------------------------------------------- domain-state cache

\* The value of a call made with nil parameters
Nil == "nil"

\* Browser.key; the browser context id is "" (0) unless the browser is incognito
key(sessionID, methodName) ==
    [browserContextID |-> 0, sessionID |-> sessionID, methodName |-> methodName]

\* sync.Map.Store / Delete / Load
Store(st, k, v) == [x \in DOMAIN st \cup {k} |-> IF x = k THEN v ELSE st[x]]
Delete(st, k) == [x \in DOMAIN st \ {k} |-> st[x]]
Has(st, k) == k \in DOMAIN st

\* A method name is <<domain, name>> (proto.ParseMethodName splits at the dot)
FetchEnableM == <<"Fetch", "enable">>
PageEnableM == <<"Page", "enable">>
SetDeviceMetricsM == <<"Emulation", "setDeviceMetricsOverride">>
ClearDeviceMetricsM == <<"Emulation", "clearDeviceMetricsOverride">>
SetGeolocationM == <<"Emulation", "setGeolocationOverride">>
ClearGeolocationM == <<"Emulation", "clearGeolocationOverride">>

\* (a slip: nothing is ever removed)
OpposingNone(methodName) == <<>>

\* The method whose entry Browser.set removes after storing methodName; <<>> is
\* the empty key "" (nothing is removed)
OpposingMethod(methodName) ==
    IF methodName = ClearDeviceMetricsM THEN SetDeviceMetricsM
    ELSE IF methodName = ClearGeolocationM THEN SetGeolocationM
    ELSE IF methodName[2] = "disable" THEN <<methodName[1], "enable">>
    ELSE <<>>

\* Browser.set
set(st, sessionID, methodName, params) ==
    LET stored == Store(st, key(sessionID, methodName), params)
        opp    == OpposingMethod(methodName)
    IN  IF opp # <<>> THEN Delete(stored, key(sessionID, opp)) ELSE stored

\* ---------------------------------------- EnableDomain / DisableDomain callers

DThreads == 1 .. MaxCallers
Sessions == {0, 1}
\* Request payloads of Fetch.enable (say, two different pattern lists)
Payloads == {"P0", "P1"}
EnableMethods == {FetchEnableM}

NoPend == [sessionID |-> 0, methodName |-> <<>>, params |-> Nil]
Idle == [op |-> "none", pc |-> "idle", sessionID |-> 0, methodName |-> <<>>,
         req |-> Nil, enabled |-> FALSE, cached |-> Nil, outer |-> {},
         mainRes |-> "none", restoreRes |-> "none", restoreReq |-> Nil, held |-> {}]

DomainInit ==
    /\ dth = [t \in DThreads |-> Idle]
    /\ pend = [t \in DThreads |-> NoPend]
    /\ remoteEnabled = {}

\* The remote's state after it answered a call of methodName successfully
RemoteAfter(re, sessionID, methodName) ==
    IF methodName[2] = "enable" THEN re \cup {<<sessionID, methodName[1]>>}
    ELSE IF methodName[2] = "disable" THEN re \ {<<sessionID, methodName[1]>>}
    ELSE re

\* Browser.Call up to the transport's answer: on an error nothing is recorded;
\* on success Browser.set is still to run (CallSet)
Call(t, sessionID, methodName, params, ok) ==
    /\ remoteEnabled' = IF ok THEN RemoteAfter(remoteEnabled, sessionID, methodName)
                        ELSE remoteEnabled
    /\ pend' = [pend EXCEPT ![t] =
                  IF ok THEN [sessionID |-> sessionID, methodName |-> methodName,
                              params |-> params]
                  ELSE NoPend]

\* Browser.Call after a successful answer: b.set(sessionID, methodName, params)
CallSet(t) ==
    /\ pend[t] # NoPend
    /\ states' = set(states, pend[t].sessionID, pend[t].methodName, pend[t].params)
    /\ pend' = [pend EXCEPT ![t] = NoPend]
    /\ UNCHANGED <<dth, remoteEnabled, exceptDomain>>

\* The callers whose EnableDomain of the same method has returned and whose
\* restore has not run yet
OuterCallers(sessionID, methodName) ==
    {u \in DThreads : /\ dth[u].op = "enable"
                      /\ dth[u].pc = "returned"
                      /\ pend[u] = NoPend
                      /\ dth[u].sessionID = sessionID
                      /\ dth[u].methodName = methodName}

\* (a slip: EnableDomain and its restore call whatever the cache says)
EnableCallsAlways(enabled) == TRUE

\* EnableDomain sends the enable call / its restore sends the disable call
EnableCalls(enabled) == ~enabled

\* DisableDomain sends the disable call / its restore sends the enable call
DisableCalls(enabled) == enabled

\* The first statement of EnableDomain and of DisableDomain: b.states.Load
LoadEnabled(t, op, sessionID, methodName, req) ==
    /\ dth[t].pc = "idle"
    /\ \A u \in DThreads : u < t => dth[u].pc # "idle"
    /\ LET k       == key(sessionID, methodName)
           enabled == Has(states, k)
           calls   == IF op = "enable" THEN EnableCalls(enabled) ELSE DisableCalls(enabled)
       IN  dth' = [dth EXCEPT ![t] =
                      [Idle EXCEPT !.op = op, !.sessionID = sessionID,
                                   !.methodName = methodName, !.req = req,
                                   !.enabled = enabled,
                                   !.cached = IF enabled THEN states[k] ELSE Nil,
                                   !.outer = OuterCallers(sessionID, methodName),
                                   !.pc = IF calls THEN "call" ELSE "returned"]]
    /\ UNCHANGED <<states, pend, remoteEnabled, exceptDomain>>

\* The method of the call that undoes methodName's domain
DisableOf(methodName) == <<methodName[1], "disable">>

\* The call of EnableDomain (req) or of DisableDomain (domain.disable, nil)
MainCall(t, ok) ==
    /\ dth[t].pc = "call"
    /\ LET d == dth[t] IN
       IF d.op = "enable"
       THEN Call(t, d.sessionID, d.methodName, d.req, ok)
       ELSE Call(t, d.sessionID, DisableOf(d.methodName), Nil, ok)
    /\ dth' = [dth EXCEPT ![t].pc = "returned",
                          ![t].mainRes = IF ok THEN "ok" ELSE "err"]
    /\ UNCHANGED <<states, exceptDomain>>

\* The parameters DisableDomain's restore re-enables with
RestoreParams(d) == d.req

\* The restore function the caller got back (held: the callers that hold the
\* domain enabled when it runs)
Restore(t, ok) ==
    /\ dth[t].pc = "returned"
    /\ pend[t] = NoPend
    /\ LET d == [dth[t] EXCEPT
                   !.held = OuterCallers(dth[t].sessionID, dth[t].methodName) \ {t}]
       IN
       IF d.op = "enable"
       THEN IF EnableCalls(d.enabled)
            THEN /\ Call(t, d.sessionID, DisableOf(d.methodName), Nil, ok)
                 /\ dth' = [dth EXCEPT ![t] =
                              [d EXCEPT !.pc = "restored",
                                        !.restoreRes = IF ok THEN "ok" ELSE "err"]]
            ELSE /\ dth' = [dth EXCEPT ![t] = [d EXCEPT !.pc = "restored"]]
                 /\ UNCHANGED <<pend, remoteEnabled>>
       ELSE IF DisableCalls(d.enabled)
            THEN /\ Call(t, d.sessionID, d.methodName, RestoreParams(d), ok)
                 /\ dth' = [dth EXCEPT ![t] =
                              [d EXCEPT !.pc = "restored",
                                        !.restoreRes = IF ok THEN "ok" ELSE "err",
                                        !.restoreReq = RestoreParams(d)]]
            ELSE /\ dth' = [dth EXCEPT ![t] = [d EXCEPT !.pc = "restored"]]
                 /\ UNCHANGED <<pend, remoteEnabled>>
    /\ UNCHANGED <<states, exceptDomain>>

DomainNext ==
    \/ \E t \in DThreads, op \in {"enable", "disable"}, sid \in Sessions,
          m \in EnableMethods, req \in Payloads : LoadEnabled(t, op, sid, m, req)
    \/ \E t \in DThreads, ok \in BOOLEAN : MainCall(t, ok)
    \/ \E t \in DThreads : CallSet(t)
    \/ \E t \in DThreads, ok \in BOOLEAN : Restore(t, ok)

\* ------------------------------------------------------------ session cache

AThreads == 1 .. MaxAttachers
Targets == {1, 2}

\* The cache key of a page is its target id (the same sync.Map holds both kinds)
targetKey(targetID) == [targetID |-> targetID]

\* Browser.cachePage
cachePage(st, targetID, page) == Store(st, targetKey(targetID), page)

\* Browser.loadCachedPage: the cached page, or 0 for nil
loadCachedPage(st, targetID) ==
    IF Has(st, targetKey(targetID)) THEN st[targetKey(targetID)] ELSE 0

\* A Page is identified by the session id it was built with
NotCalling == [pc |-> "idle", target |-> 0, page |-> 0, err |-> FALSE, contended |-> FALSE]

AttachInit ==
    /\ defaultDevice = "LaptopWithMDPIScreen"
    /\ targetsLock = 0
    /\ ath = [t \in AThreads |-> NotCalling]
    /\ attachCalls = [g \in Targets |-> 0]
    /\ nextSession = 1

\* Browser.NoDefaultDevice
NoDefaultDevice ==
    /\ defaultDevice # "Clear"
    /\ defaultDevice' = "Clear"
    /\ UNCHANGED <<states, targetsLock, ath, attachCalls, nextSession, exceptAttach>>

\* A caller enters PageFromTarget (contended: the lock is taken at that moment)
PageFromTarget(t, targetID) ==
    /\ ath[t].pc = "idle"
    /\ \A u \in AThreads : u < t => ath[u].pc # "idle"
    /\ ath' = [ath EXCEPT ![t] = [NotCalling EXCEPT !.pc = "lock", !.target = targetID,
                                                    !.contended = targetsLock # 0]]
    /\ UNCHANGED <<states, defaultDevice, targetsLock, attachCalls, nextSession, exceptAttach>>

\* (a slip: no mutual exclusion)
CanLockAlways(holder) == TRUE

\* sync.Mutex.Lock succeeds only on a free mutex
CanLock(holder) == holder = 0

\* (a slip: the lock is not released)
UnlockKeeps(holder) == holder

\* sync.Mutex.Unlock
Unlock(holder) == 0

\* b.targetsLock.Lock(), then the cache lookup
LockAndLoad(t) ==
    /\ ath[t].pc = "lock"
    /\ CanLock(targetsLock)
    /\ targetsLock' = t
    /\ LET page == loadCachedPage(states, ath[t].target) IN
       ath' = [ath EXCEPT ![t].page = page,
                          ![t].pc = IF page # 0 THEN "return" ELSE "attach"]
    /\ UNCHANGED <<states, defaultDevice, attachCalls, nextSession, exceptAttach>>

\* proto.TargetAttachToTarget{...}.Call(b); the Page is built from the session
AttachToTarget(t, ok) ==
    /\ ath[t].pc = "attach"
    /\ attachCalls' = [attachCalls EXCEPT ![ath[t].target] = @ + 1]
    /\ IF ok
       THEN /\ states' = set(states, 0, <<"Target", "attachToTarget">>, ath[t].target)
            /\ nextSession' = nextSession + 1
            /\ ath' = [ath EXCEPT ![t].page = nextSession,
                                  ![t].pc = IF defaultDevice # "Clear" THEN "emulate"
                                            ELSE "cache"]
       ELSE /\ ath' = [ath EXCEPT ![t].err = TRUE, ![t].pc = "return"]
            /\ UNCHANGED <<states, nextSession>>
    /\ UNCHANGED <<defaultDevice, targetsLock, exceptAttach>>

\* (a slip: the page is cached whatever Emulate returned)
AfterEmulateCache(ok) == "cache"

\* if err != nil { return nil, err } after page.Emulate
AfterEmulate(ok) == IF ok THEN "cache" ELSE "return"

\* page.Emulate(b.defaultDevice): on an error the page is dropped
Emulate(t, ok) ==
    /\ ath[t].pc = "emulate"
    /\ ath' = [ath EXCEPT ![t].pc = AfterEmulate(ok),
                          ![t].err = ~ok,
                          ![t].page = IF ok THEN @ ELSE 0]
    /\ UNCHANGED <<states, defaultDevice, targetsLock, attachCalls, nextSession, exceptAttach>>

\* b.cachePage(page); page.initEvents()
CachePage(t) ==
    /\ ath[t].pc = "cache"
    /\ states' = cachePage(states, ath[t].target, ath[t].page)
    /\ ath' = [ath EXCEPT ![t].pc = "enable"]
    /\ UNCHANGED <<defaultDevice, targetsLock, attachCalls, nextSession, exceptAttach>>

\* page.EnableDomain(&proto.PageEnable{}): its restore is dropped, an error ignored
EnablePage(t, ok) ==
    /\ ath[t].pc = "enable"
    /\ states' = IF EnableCalls(Has(states, key(ath[t].page, PageEnableM))) /\ ok
                 THEN set(states, ath[t].page, PageEnableM, "PageEnable")
                 ELSE states
    /\ ath' = [ath EXCEPT ![t].pc = "return"]
    /\ UNCHANGED <<defaultDevice, targetsLock, attachCalls, nextSession, exceptAttach>>

\* return: the deferred b.targetsLock.Unlock()
Return(t) ==
    /\ ath[t].pc = "return"
    /\ targetsLock' = 0
    /\ ath' = [ath EXCEPT ![t].pc = "done"]
    /\ UNCHANGED <<states, defaultDevice, attachCalls, nextSession, exceptAttach>>

AttachNext ==
    \/ NoDefaultDevice
    \/ \E t \in AThreads, g \in Targets : PageFromTarget(t, g)
    \/ \E t \in AThreads : LockAndLoad(t)
    \/ \E t \in AThreads, ok \in BOOLEAN : AttachToTarget(t, ok)
    \/ \E t \in AThreads, ok \in BOOLEAN : Emulate(t, ok)
    \/ \E t \in AThreads : CachePage(t)
    \/ \E t \in AThreads, ok \in BOOLEAN : EnablePage(t, ok)
    \/ \E t \in AThreads : Return(t)

\* --------------------------------------------- utils.Retry in Page.ElementByJS

Waiters == 1 .. MaxWaiters

\* calls: invocations of the function given to Retry; sleeps: sleeps that ran
\* to their end (both counted up to MaxInvocations, which stands for "or
\* more"); late: invocations made after the context was cancelled;
\* first: what the first invocation found; err: what Retry returned
NotWaiting == [pc |-> "idle", calls |-> 0, sleeps |-> 0, late |-> 0,
               first |-> "", err |-> ""]

UntilInit ==
    /\ retry = [w \in Waiters |-> NotWaiting]
    /\ scope = [w \in Waiters |-> FALSE]

UpTo(n) == IF n < MaxInvocations THEN n + 1 ELSE MaxInvocations

\* Page.ElementByJS: utils.Retry(p.ctx, p.sleeper(), fn) invokes fn at once.
\* The callers are alike, so they call in the order of their numbers
ElementByJS(w) ==
    /\ retry[w].pc = "idle"
    /\ \A v \in Waiters : v < w => retry[v].pc # "idle"
    /\ retry' = [retry EXCEPT ![w].pc = "fn"]
    /\ UNCHANGED <<scope, exceptUntil>>

\* (a slip: the function never tells Retry to stop)
StopNever(found) == FALSE

\* The function ElementByJS gives to Retry returns (true, err) when Evaluate
\* failed, (false, nil) when the value is null and (true, nil) otherwise
Stops(found) == found # "null"

\* The error the function returns
ErrOf(found) == IF found = "err" THEN "err" ELSE "nil"

\* One invocation of the function: Evaluate fails ("err") or gives null, a
\* node or another value.  Retry returns the function's error when it is told
\* to stop and sleeps after (false, nil)
Fn(w, found) ==
    /\ retry[w].pc = "fn"
    /\ retry' = [retry EXCEPT ![w].calls = UpTo(@),
                        ![w].late = IF scope[w] THEN UpTo(@) ELSE @,
                        ![w].first = IF retry[w].calls = 0 THEN found ELSE @,
                        ![w].pc = IF Stops(found) THEN "done" ELSE "sleep",
                        ![w].err = IF Stops(found) THEN ErrOf(found) ELSE @]
    /\ UNCHANGED <<scope, exceptUntil>>

\* The sleeper (DefaultSleeper: a backoff from 100ms to 1s) has waited for its
\* delay while the context was not cancelled: Retry invokes the function again
SleepElapsed(w) ==
    /\ retry[w].pc = "sleep"
    /\ ~scope[w]
    /\ retry' = [retry EXCEPT ![w].sleeps = UpTo(@), ![w].pc = "fn"]
    /\ UNCHANGED <<scope, exceptUntil>>

\* The context ended before the delay: Retry returns the context's error
SleepCancelled(w) ==
    /\ retry[w].pc = "sleep"
    /\ scope[w]
    /\ retry' = [retry EXCEPT ![w].pc = "done", ![w].err = "cancelled"]
    /\ UNCHANGED <<scope, exceptUntil>>

\* The context of the page is cancelled (cancel function or timeout) while
\* ElementByJS is running
CancelScope(w) ==
    /\ retry[w].pc \notin {"idle", "done"}
    /\ ~scope[w]
    /\ scope' = [scope EXCEPT ![w] = TRUE]
    /\ UNCHANGED <<retry, exceptUntil>>

Found == {"err", "null", "node", "value"}

Until(w) ==
    \/ ElementByJS(w)
    \/ \E found \in Found : Fn(w, found)
    \/ SleepElapsed(w)
    \/ SleepCancelled(w)

UntilNext ==
    \/ \E w \in Waiters : Until(w)
    \/ \E w \in Waiters : CancelScope(w)

\* Every caller goes on, and a context that is to be cancelled is cancelled
UntilFair == \A w \in Waiters : WF_vars(Until(w))

\* ------------------------------------------------------------- Browser.Page

NotOpening == [pc |-> "idle", url |-> "", target |-> 0, page |-> 0, err |-> FALSE]

PageInit ==
    /\ bp = [t \in AThreads |-> NotOpening]
    /\ nextTarget = 1
    /\ closeCalls = [g \in Targets |-> 0]

\* Browser.Page(opts): req.Call(b) is to come.  The callers are alike, so they
\* call in the order of their numbers
Page(t, url) ==
    /\ bp[t].pc = "idle"
    /\ \A u \in AThreads : u < t => bp[u].pc # "idle"
    /\ bp' = [bp EXCEPT ![t] = [NotOpening EXCEPT !.pc = "create", !.url = url]]
    /\ UNCHANGED <<states, nextTarget, closeCalls, attachVars, exceptPage>>

\* target, err := req.Call(b): an error is returned as it is; with a target
\* the close is deferred and b.PageFromTarget(target.TargetID) is called
CreateTarget(t, ok) ==
    /\ bp[t].pc = "create"
    /\ IF ok
       THEN /\ nextTarget \in Targets
            /\ nextTarget' = nextTarget + 1
            /\ bp' = [bp EXCEPT ![t].pc = "attach", ![t].target = nextTarget]
            /\ ath' = [ath EXCEPT ![t] = [NotCalling EXCEPT !.pc = "lock",
                                                            !.target = nextTarget,
                                                            !.contended = targetsLock # 0]]
       ELSE /\ bp' = [bp EXCEPT ![t].pc = "done", ![t].err = TRUE]
            /\ UNCHANGED <<nextTarget, ath>>
    /\ UNCHANGED <<states, closeCalls, defaultDevice, targetsLock, attachCalls,
                   nextSession, exceptPage>>

\* (a slip: the deferred function does not close the target)
DeferredNever(err) == "done"

\* The deferred function of Browser.Page: if err != nil, Target.closeTarget
Deferred(err) == IF err THEN "close" ELSE "done"

\* p, err = b.PageFromTarget(target.TargetID) has returned: Browser.Page
\* returns on an error and when opts.URL is empty
Attached(t) ==
    /\ bp[t].pc = "attach"
    /\ ath[t].pc = "done"
    /\ bp' = [bp EXCEPT ![t].page = ath[t].page, ![t].err = ath[t].err,
                        ![t].pc = IF ath[t].err \/ bp[t].url = ""
                                  THEN Deferred(ath[t].err) ELSE "navigate"]
    /\ UNCHANGED <<states, nextTarget, closeCalls, attachVars, exceptPage>>

\* err = p.Navigate(opts.URL); return
Navigate(t, ok) ==
    /\ bp[t].pc = "navigate"
    /\ bp' = [bp EXCEPT ![t].err = ~ok, ![t].pc = Deferred(~ok)]
    /\ UNCHANGED <<states, nextTarget, closeCalls, attachVars, exceptPage>>

\* proto.TargetCloseTarget{TargetID: target.TargetID}.Call(b), its result dropped
CloseTarget(t) ==
    /\ bp[t].pc = "close"
    /\ closeCalls' = [closeCalls EXCEPT ![bp[t].target] = @ + 1]
    /\ bp' = [bp EXCEPT ![t].pc = "done"]
    /\ UNCHANGED <<states, nextTarget, attachVars, exceptPage>>

PageNext ==
    \/ NoDefaultDevice
    \/ \E t \in AThreads, url \in {"", "url"} : Page(t, url)
    \/ \E t \in AThreads, ok \in BOOLEAN : CreateTarget(t, ok)
    \/ \E t \in AThreads : LockAndLoad(t)
    \/ \E t \in AThreads, ok \in BOOLEAN : AttachToTarget(t, ok)
    \/ \E t \in AThreads, ok \in BOOLEAN : Emulate(t, ok)
    \/ \E t \in AThreads : CachePage(t)
    \/ \E t \in AThreads, ok \in BOOLEAN : EnablePage(t, ok)
    \/ \E t \in AThreads : Return(t)
    \/ \E t \in AThreads : Attached(t)
    \/ \E t \in AThreads, ok \in BOOLEAN : Navigate(t, ok)
    \/ \E t \in AThreads : CloseTarget(t)

\* ------------------------------------------------------------ hijack router

Requests == 1 .. MaxReq

\* The router of Browser.HijackRequests: its client is the browser, session ""
RouterSession == 0

\* URL patterns handlers are registered with, and the URLs of paused requests
Patterns == {<<"*">>, <<"a", "?">>}
URLs == {<<"b">>}
ResourceTypes == {"", "Image"}

\* What a handler callback does with the Hijack context it is given
Callbacks == {"skip", "continue", "fulfill", "fail"}

\* No handler examined yet
NoHandler == [pattern |-> <<>>, regexp |-> <<>>, handler |-> ""]

\* HijackRouter.new: the context of one paused request.  snapshot is the value
\* of r.handlers the range clause has read, i the index of the next iteration,
\* h the handler of the latest iteration and at its index
new(url) ==
    [state |-> "walking", url |-> url, snapshot |-> handlers, i |-> 1,
     h |-> NoHandler, at |-> 0,
     Skip |-> FALSE, continueRequest |-> FALSE,
     failReason |-> "", body |-> "", code |-> 200]

\* The effect of the callback on the context
\*   skip          : ctx.Skip = true
\*   continue      : ctx.ContinueRequest(&proto.FetchContinueRequest{})
\*   fulfill       : ctx.Response.SetBody("ok")
\*   fail          : ctx.Response.Fail(reason)
\* and a callback named with a "+" does the one and then the other
RunCallback(cb, ctx) ==
    CASE cb = "skip"          -> [ctx EXCEPT !.Skip = TRUE]
      [] cb = "continue"      -> [ctx EXCEPT !.continueRequest = TRUE]
      [] cb = "fulfill"       -> [ctx EXCEPT !.body = "ok"]
      [] cb = "fail"          -> [ctx EXCEPT !.failReason = "Failed"]
      [] cb = "continue+skip" -> [ctx EXCEPT !.continueRequest = TRUE, !.Skip = TRUE]
      [] cb = "continue+fail" -> [ctx EXCEPT !.continueRequest = TRUE, !.failReason = "Failed"]
      [] cb = "skip+fail"     -> [ctx EXCEPT !.Skip = TRUE, !.failReason = "Failed"]
      [] cb = "fail+fulfill"  -> [ctx EXCEPT !.failReason = "Failed", !.body = "ok"]

\* No call: the loop falls through to the next handler
NoCall == [method |-> "none", body |-> "", code |-> 0]

\* (a slip: Skip is looked at before the continue directive)
DirectiveSkipFirst(ctx) ==
    IF ctx.Skip THEN [method |-> "none", body |-> "", code |-> 0]
    ELSE IF ctx.continueRequest THEN [method |-> "continueRequest", body |-> "", code |-> 0]
    ELSE IF ctx.failReason # "" THEN [method |-> "failRequest", body |-> "", code |-> 0]
    ELSE [method |-> "fulfillRequest", body |-> ctx.body, code |-> ctx.code]

\* The call the router sends after a callback returned
Directive(ctx) ==
    IF ctx.continueRequest THEN [method |-> "continueRequest", body |-> "", code |-> 0]
    ELSE IF ctx.Skip THEN NoCall
    ELSE IF ctx.failReason # "" THEN [method |-> "failRequest", body |-> "", code |-> 0]
    ELSE [method |-> "fulfillRequest", body |-> ctx.body, code |-> ctx.code]

\* After the call returned with or without an error: does the goroutine return?
\* Only a fulfill call that succeeded lets the loop go on.
WalkEnds(call, ok) == call.method # "fulfillRequest" \/ ~ok

HijackInit ==
    /\ handlers = <<>>
    /\ enablePatterns = <<>>
    /\ hj = [q \in Requests |-> [state |-> "none"]]
    /\ fetchCalls = [q \in Requests |-> <<>>]
    /\ onError = [q \in Requests |-> 0]
    /\ invoked = [q \in Requests |-> <<>>]
    /\ adds = 0
    /\ removes = 0

\* HijackRouter.Add: the pattern and the handler are appended, then Fetch.enable
\* is called again with the new patterns and the cache records the call (the
\* transport answers the router's Fetch.enable calls)
Add(pattern, resourceType, cb) ==
    /\ adds < MaxAdds
    /\ adds' = adds + 1
    /\ RegValid(PatternToReg(pattern))
    /\ enablePatterns' = Append(enablePatterns,
                                [URLPattern |-> pattern, ResourceType |-> resourceType])
    /\ handlers' = Append(handlers,
                          [pattern |-> pattern, regexp |-> PatternToReg(pattern),
                           handler |-> cb])
    /\ states' = set(states, RouterSession, FetchEnableM, enablePatterns')
    /\ UNCHANGED <<hj, fetchCalls, onError, invoked, removes, exceptHijack>>

\* The handlers Remove keeps
RECURSIVE KeptHandlers(_, _)
KeptHandlers(hs, pattern) ==
    IF hs = <<>> THEN <<>>
    ELSE IF hs[1].pattern # pattern
         THEN <<hs[1]>> \o KeptHandlers(Tail(hs), pattern)
         ELSE KeptHandlers(Tail(hs), pattern)

\* HijackRouter.Remove: both lists are rebuilt from the handlers kept (the
\* rebuilt patterns carry no resource type), then Fetch.enable is called
Remove(pattern) ==
    /\ removes < MaxRemoves
    /\ removes' = removes + 1
    /\ handlers' = KeptHandlers(handlers, pattern)
    /\ enablePatterns' = [n \in 1 .. Len(handlers') |->
                            [URLPattern |-> handlers'[n].pattern, ResourceType |-> ""]]
    /\ states' = set(states, RouterSession, FetchEnableM, enablePatterns')
    /\ UNCHANGED <<hj, fetchCalls, onError, invoked, adds, exceptHijack>>

\* A Fetch.requestPaused event arrives: the callback of eachEvent starts a
\* goroutine, which builds the context and ranges over r.handlers
RequestPaused(q, url) ==
    /\ hj[q].state = "none"
    /\ \A o \in Requests : o < q => hj[o].state # "none"
    /\ hj' = [hj EXCEPT ![q] = new(url)]
    /\ UNCHANGED <<handlers, enablePatterns, fetchCalls, onError, invoked, states,
                   adds, removes, exceptHijack>>

\* (a slip: every iteration reads r.handlers again)
RangedLive(c) == handlers

\* for _, h := range r.handlers: the range expression is evaluated once, before
\* the first iteration, and the iterations index the slice it gave
Ranged(c) == c.snapshot

\* One iteration of the loop over the handlers
WalkStep(q, ok) ==
    /\ hj[q].state = "walking"
    /\ LET c == hj[q] IN
       IF c.i > Len(Ranged(c))
       THEN \* the loop is over: the goroutine ends
            /\ hj' = [hj EXCEPT ![q].state = "done"]
            /\ UNCHANGED <<fetchCalls, onError, invoked>>
       ELSE LET h == Ranged(c)[c.i] IN
            IF ~MatchString(h.regexp, c.url)
            THEN /\ hj' = [hj EXCEPT ![q].i = c.i + 1, ![q].h = h, ![q].at = c.i]
                 /\ UNCHANGED <<fetchCalls, onError, invoked>>
            ELSE LET ctx  == RunCallback(h.handler, [c EXCEPT !.h = h, !.at = c.i])
                     call == Directive(ctx)
                 IN  /\ invoked' = [invoked EXCEPT ![q] = Append(@, c.i)]
                     /\ IF call = NoCall
                        THEN /\ hj' = [hj EXCEPT ![q] = [ctx EXCEPT !.i = c.i + 1]]
                             /\ UNCHANGED <<fetchCalls, onError>>
                        ELSE /\ fetchCalls' = [fetchCalls EXCEPT ![q] = Append(@, call)]
                             /\ onError' = [onError EXCEPT ![q] = IF ok THEN @ ELSE @ + 1]
                             /\ hj' = [hj EXCEPT ![q] =
                                         IF WalkEnds(call, ok)
                                         THEN [ctx EXCEPT !.state = "done"]
                                         ELSE [ctx EXCEPT !.i = c.i + 1]]
    /\ UNCHANGED <<handlers, enablePatterns, states, adds, removes, exceptHijack>>

HijackNext ==
    \/ \E p \in Patterns, rt \in ResourceTypes, cb \in Callbacks : Add(p, rt, cb)
    \/ \E p \in Patterns : Remove(p)
    \/ \E q \in Requests, u \in URLs : RequestPaused(q, u)
    \/ \E q \in Requests, ok \in BOOLEAN : WalkStep(q, ok)

\* The router with handlers that skip or fulfill, so that a walk goes on to
\* the end of its list
WalkNext ==
    \/ \E p \in Patterns, cb \in {"skip", "fulfill"} : Add(p, "", cb)
    \/ \E p \in Patterns : Remove(p)
    \/ \E q \in Requests, u \in URLs : RequestPaused(q, u)
    \/ \E q \in Requests, ok \in BOOLEAN : WalkStep(q, ok)

\* Callbacks that set more than one directive
Combined == {"continue+skip", "continue+fail", "skip+fail", "fail+fulfill"}

\* The router with handlers for every URL whose callbacks set one or two
\* directives
DirectiveNext ==
    \/ \E cb \in Callbacks \cup Combined : Add(<<"*">>, "", cb)
    \/ \E q \in Requests, u \in URLs : RequestPaused(q, u)
    \/ \E q \in Requests, ok \in BOOLEAN : WalkStep(q, ok)

\* -------------------------------------------------------- execution context

EThreads == 1 .. MaxEvaluators

NoHelpers == [nil |-> TRUE, m |-> <<>>]

\* thisObj, jsArg: the EvalOptions of Page.Evaluate (ThisObj is set; JSArgs holds
\* a js.Function); phase: formatArgs ("args") or the ObjectID of the request
\* ("this"); helperCtx: the context id the helper was looked up under; objectID:
\* req.ObjectID; attempt: the round of Evaluate's loop; res: what Evaluate
\* returned; didUnset, lastFailed: Evaluate has called unsetJSCtxID, and the
\* context id of the attempt that failed last
NotEvaluating ==
    [op |-> "", pc |-> "idle", ctx |-> 0, fnID |-> 0, id |-> 0, err |-> FALSE,
     contended |-> FALSE, stale |-> FALSE,
     thisObj |-> FALSE, jsArg |-> FALSE, phase |-> "", helperCtx |-> 0,
     objectID |-> 0, attempt |-> 0, res |-> "", didUnset |-> FALSE, lastFailed |-> 0,
     lastErr |-> ""]

CtxInit ==
    /\ isIframe = FALSE
    /\ jsCtxID = 0
    /\ jsCtxLock = 0
    /\ helpers = NoHelpers
    /\ helpersLock = 0
    /\ eth = [t \in EThreads |-> NotEvaluating]
    /\ nextObj = 1
    /\ evals = 0
    /\ unsets = 0
    /\ resolvedAt = 0
    /\ roundTrips = 0
    /\ failed = FALSE

\* The call of caller d returns and its locals are gone. What is kept of it is
\* the context id getJSCtxID handed out and, of Evaluate, the result and the
\* course it took (ThisObj, rounds, invalidation)
Returns(d) ==
    [NotEvaluating EXCEPT !.ctx = IF d.op = "Evaluate" THEN 0 ELSE d.ctx,
                          !.res = d.res, !.thisObj = d.thisObj,
                          !.attempt = d.attempt, !.didUnset = d.didUnset,
                          !.lastErr = d.lastErr]

\* An unrecovered panic ends the process
Running == \A t \in EThreads : eth[t].pc # "panic"

\* Element.Frame: the page the callers use is the clone made for an iframe
Frame ==
    /\ ~isIframe /\ jsCtxID = 0 /\ helpers.nil /\ roundTrips = 0
    /\ \A t \in EThreads : eth[t].pc = "idle"
    /\ isIframe' = TRUE
    /\ UNCHANGED <<jsCtxID, jsCtxLock, helpers, eth, nextObj, unsets, resolvedAt,
                   roundTrips, failed, evals, helpersLock, exceptCtx>>

\* A remote call of caller d was answered with an error: evaluate returns it to
\* Evaluate; ensureJSHelper and getJSCtxID called alone return it
Fails(d) ==
    IF d.op = "Evaluate" THEN [d EXCEPT !.pc = "failed", !.fnID = 0]
    ELSE Returns([d EXCEPT !.err = TRUE])

\* evaluate after formatArgs: req.ObjectID is the context id (p.getJSCtxID(),
\* for which the caller waits at "lock") or opts.ThisObj.ObjectID
ObjectIDOf(d) ==
    IF d.thisObj THEN [d EXCEPT !.pc = "call"]
    ELSE [d EXCEPT !.pc = "lock", !.phase = "this"]

\* ensureJSHelper returns the function id to its caller
Ensured(d) ==
    IF d.op = "Evaluate" THEN ObjectIDOf([d EXCEPT !.helperCtx = d.ctx, !.fnID = 0])
    ELSE Returns(d)

\* Where a caller goes on when getJSCtxID has returned an id
AfterCtx(d) ==
    IF d.op = "ensureJSHelper" \/ (d.op = "Evaluate" /\ d.phase = "args")
    THEN [d EXCEPT !.pc = "getFunctions"]
    ELSE IF d.op = "Evaluate" THEN [d EXCEPT !.pc = "call", !.objectID = d.ctx]
    ELSE Returns(d)

\* (a slip: the cached id is never used)
CachedNever(id) == FALSE

\* if *p.jsCtxID != ""
Cached(id) == id # 0

\* getJSCtxID once caller t (with locals d) has the lock: the cached id is
\* returned and the lock released, or the lock is kept for the resolution
LockedCtx(t, d) ==
    IF Cached(jsCtxID)
    THEN /\ eth' = [eth EXCEPT ![t] = AfterCtx([d EXCEPT !.ctx = jsCtxID])]
         /\ jsCtxLock' = 0
    ELSE /\ eth' = [eth EXCEPT ![t] = [d EXCEPT !.pc = "resolve"]]
         /\ jsCtxLock' = t

\* A caller enters evaluate (op "getJSCtxID") or ensureJSHelper; both start
\* with p.getJSCtxID(), whose p.jsCtxLock.Lock() goes through at once when the
\* lock is free and waits otherwise (contended). The callers are alike, so they
\* make their first calls in the order of their numbers
Enter(t, op) ==
    /\ Running
    /\ eth[t].pc = "idle"
    /\ evals < MaxCalls /\ t <= evals + 1
    /\ evals' = evals + 1
    /\ LET d == [NotEvaluating EXCEPT !.op = op, !.contended = ~CanLock(jsCtxLock)] IN
       IF CanLock(jsCtxLock)
       THEN LockedCtx(t, d)
       ELSE /\ eth' = [eth EXCEPT ![t] = [d EXCEPT !.pc = "lock"]]
            /\ UNCHANGED jsCtxLock
    /\ UNCHANGED <<isIframe, jsCtxID, helpers, nextObj, unsets, resolvedAt,
                   roundTrips, failed, helpersLock, exceptCtx>>

\* getJSCtxID: p.jsCtxLock.Lock() returns for a caller that waited
LockCtx(t) ==
    /\ Running
    /\ eth[t].pc = "lock"
    /\ CanLock(jsCtxLock)
    /\ LockedCtx(t, eth[t])
    /\ UNCHANGED <<isIframe, jsCtxID, helpers, nextObj, evals, unsets, resolvedAt,
                   roundTrips, failed, helpersLock, exceptCtx>>

\* getJSCtxID on a top-level page: RuntimeEvaluate{"window"}; the id is
\* published and p.helpersLock.Lock() taken (the lock is free: the others hold
\* it for one step only)
RuntimeEvaluate(t, ok) ==
    /\ Running
    /\ eth[t].pc = "resolve" /\ ~isIframe
    /\ roundTrips' = IF roundTrips < MaxCalls THEN roundTrips + 1 ELSE roundTrips
    /\ IF ok
       THEN /\ nextObj <= MaxObjects
            /\ CanLock(helpersLock)
            /\ jsCtxID' = nextObj
            /\ nextObj' = nextObj + 1
            /\ helpersLock' = t
            /\ eth' = [eth EXCEPT ![t].pc = "clear"]
            /\ UNCHANGED <<jsCtxLock, failed>>
       ELSE /\ eth' = [eth EXCEPT ![t] = Fails(@)]
            /\ jsCtxLock' = 0
            /\ failed' = TRUE
            /\ UNCHANGED <<jsCtxID, nextObj, helpersLock>>
    /\ UNCHANGED <<isIframe, helpers, evals, unsets, resolvedAt, exceptCtx>>

\* getJSCtxID on a top-level page: p.helpers = nil, p.helpersLock.Unlock(),
\* return (the deferred p.jsCtxLock.Unlock())
ClearHelpers(t) ==
    /\ Running
    /\ eth[t].pc = "clear"
    /\ helpers' = NoHelpers
    /\ helpersLock' = Unlock(helpersLock)
    /\ jsCtxLock' = 0
    /\ eth' = [eth EXCEPT ![t] = AfterCtx([@ EXCEPT !.ctx = jsCtxID])]
    /\ resolvedAt' = unsets
    /\ UNCHANGED <<isIframe, jsCtxID, nextObj, evals, unsets, roundTrips, failed, exceptCtx>>

\* getJSCtxID on an iframe: p.element.Describe and DOMResolveNode, then
\* p.helpersLock.Lock()
ResolveNode(t, ok) ==
    /\ Running
    /\ eth[t].pc = "resolve" /\ isIframe
    /\ roundTrips' = IF roundTrips < MaxCalls THEN roundTrips + 1 ELSE roundTrips
    /\ IF ok
       THEN /\ CanLock(helpersLock)
            /\ helpersLock' = t
            /\ eth' = [eth EXCEPT ![t].pc = "delete"]
            /\ UNCHANGED <<jsCtxLock, failed>>
       ELSE /\ eth' = [eth EXCEPT ![t] = Fails(@)]
            /\ jsCtxLock' = 0
            /\ failed' = TRUE
            /\ UNCHANGED helpersLock
    /\ UNCHANGED <<isIframe, jsCtxID, helpers, nextObj, evals, unsets, resolvedAt,
                   exceptCtx>>

\* getJSCtxID on an iframe: delete(p.helpers, *p.jsCtxID), p.helpersLock.Unlock()
DeleteHelpers(t) ==
    /\ Running
    /\ eth[t].pc = "delete"
    /\ helpers' = [helpers EXCEPT !.m = Delete(@, jsCtxID)]
    /\ helpersLock' = Unlock(helpersLock)
    /\ eth' = [eth EXCEPT ![t].pc = "byObject"]
    /\ UNCHANGED <<isIframe, jsCtxID, jsCtxLock, nextObj, evals, unsets, resolvedAt,
                   roundTrips, failed, exceptCtx>>

\* getJSCtxID on an iframe: id, err := p.jsCtxIDByObjectID(...); *p.jsCtxID = id
jsCtxIDByObjectID(t, ok) ==
    /\ Running
    /\ eth[t].pc = "byObject"
    /\ IF ok
       THEN /\ nextObj <= MaxObjects
            /\ jsCtxID' = nextObj
            /\ nextObj' = nextObj + 1
            /\ eth' = [eth EXCEPT ![t] = AfterCtx([@ EXCEPT !.ctx = nextObj])]
            /\ resolvedAt' = unsets
            /\ UNCHANGED failed
       ELSE /\ jsCtxID' = 0
            /\ eth' = [eth EXCEPT ![t] = Fails(@)]
            /\ failed' = TRUE
            /\ UNCHANGED <<nextObj, resolvedAt>>
    /\ jsCtxLock' = 0
    /\ UNCHANGED <<isIframe, helpers, helpersLock, evals, unsets, roundTrips, exceptCtx>>

\* Page.unsetJSCtxID
unsetJSCtxID ==
    /\ Running
    /\ unsets < MaxUnsets
    /\ CanLock(jsCtxLock)
    /\ jsCtxID' = 0
    /\ unsets' = unsets + 1
    /\ UNCHANGED <<isIframe, jsCtxLock, helpers, eth, nextObj, resolvedAt,
                   roundTrips, failed, evals, helpersLock, exceptCtx>>

\* The helper a caller is at: js.Functions first, then fn itself
HelperName(pc) == IF pc \in {"getFunctions", "shipFunctions"} THEN "functions" ELSE "fn"

\* Page.getHelper: what it leaves in p.helpers (the map and the list are made)
getHelperMap(h, ctx) ==
    [nil |-> FALSE, m |-> IF Has(h.m, ctx) THEN h.m ELSE Store(h.m, ctx, <<>>)]

\* Page.getHelper: has
getHelperHas(h, ctx, name) == Has(h.m, ctx) /\ Has(h.m[ctx], name)

\* p.getHelper(jsCtxID, js.Functions.Name) and p.getHelper(jsCtxID, fn.Name)
GetHelper(t) ==
    /\ Running
    /\ eth[t].pc \in {"getFunctions", "getFn"}
    /\ CanLock(helpersLock)
    /\ helpers' = getHelperMap(helpers, eth[t].ctx)
    /\ LET name == HelperName(eth[t].pc)
           has == getHelperHas(helpers, eth[t].ctx, name)
           entry == helpers.m[eth[t].ctx][name]
           d == [eth[t] EXCEPT
                   !.pc = IF eth[t].pc = "getFunctions"
                          THEN (IF has THEN "getFn" ELSE "shipFunctions")
                          ELSE (IF has THEN "idle" ELSE "shipFn"),
                   !.fnID = IF has /\ name = "functions" THEN entry.id ELSE @,
                   !.id = IF has /\ name = "fn" THEN entry.id ELSE @,
                   !.stale = @ \/ (has /\ entry.at < resolvedAt)]
       IN  eth' = [eth EXCEPT ![t] = IF d.pc = "idle" THEN Ensured(d) ELSE d]
    /\ UNCHANGED <<isIframe, jsCtxID, jsCtxLock, nextObj, unsets, resolvedAt,
                   roundTrips, failed, evals, helpersLock, exceptCtx>>

\* Page.setHelper: p.helpers[jsCtxID][name] = fnID (at: the invalidations so far)
setHelper(h, ctx, name, fnID) ==
    [h EXCEPT !.m[ctx] = Store(@, name, [id |-> fnID, at |-> unsets])]

\* Page.setHelper panics when the list of jsCtxID is nil (assignment to an entry
\* of a nil map)
setHelperPanics(h, ctx) == ~Has(h.m, ctx)

\* RuntimeCallFunctionOn{ObjectID: jsCtxID, ...}.Call(p): the helper is shipped,
\* then p.setHelper(jsCtxID, name, id)
CallFunctionOn(t, ok) ==
    /\ Running
    /\ eth[t].pc \in {"shipFunctions", "shipFn"}
    /\ IF ok
       THEN /\ nextObj <= MaxObjects
            /\ CanLock(helpersLock)
            /\ nextObj' = nextObj + 1
            /\ IF setHelperPanics(helpers, eth[t].ctx)
               THEN /\ eth' = [eth EXCEPT ![t].pc = "panic"]
                    /\ UNCHANGED helpers
               ELSE /\ helpers' = setHelper(helpers, eth[t].ctx, HelperName(eth[t].pc), nextObj)
                    /\ eth' = [eth EXCEPT ![t] =
                                  IF eth[t].pc = "shipFunctions"
                                  THEN [@ EXCEPT !.pc = "getFn", !.fnID = nextObj]
                                  ELSE Ensured([@ EXCEPT !.id = nextObj])]
       ELSE /\ eth' = [eth EXCEPT ![t] = Fails(@)]
            /\ UNCHANGED <<nextObj, helpers>>
    /\ UNCHANGED <<isIframe, jsCtxID, jsCtxLock, evals, unsets, resolvedAt,
                   roundTrips, failed, helpersLock, exceptCtx>>

CtxNext ==
    \/ Frame
    \/ \E t \in EThreads, op \in {"getJSCtxID", "ensureJSHelper"} : Enter(t, op)
    \/ \E t \in EThreads : LockCtx(t)
    \/ \E t \in EThreads, ok \in BOOLEAN : RuntimeEvaluate(t, ok)
    \/ \E t \in EThreads : ClearHelpers(t)
    \/ \E t \in EThreads, ok \in BOOLEAN : ResolveNode(t, ok)
    \/ \E t \in EThreads : DeleteHelpers(t)
    \/ \E t \in EThreads, ok \in BOOLEAN : jsCtxIDByObjectID(t, ok)
    \/ unsetJSCtxID
    \/ \E t \in EThreads : GetHelper(t)
    \/ \E t \in EThreads, ok \in BOOLEAN : CallFunctionOn(t, ok)

\* ------------------------------------------------------------ Page.Evaluate

\* A round of Evaluate's loop begins, p.evaluate(opts): formatArgs calls
\* ensureJSHelper for a js.Function argument, and ensureJSHelper or evaluate
\* itself calls p.getJSCtxID(), for whose lock the caller waits; with ThisObj
\* and no helper neither is called
StartAttempt(d) ==
    IF d.jsArg THEN [d EXCEPT !.pc = "lock", !.phase = "args"]
    ELSE ObjectIDOf(d)

\* Page.Evaluate(opts)
Evaluate(t, thisObj, jsArg) ==
    /\ Running
    /\ eth[t].pc = "idle"
    /\ evals < MaxCalls /\ t <= evals + 1
    /\ evals' = evals + 1
    /\ eth' = [eth EXCEPT ![t] =
                  StartAttempt([NotEvaluating EXCEPT !.op = "Evaluate", !.attempt = 1,
                                                     !.thisObj = thisObj, !.jsArg = jsArg])]
    /\ UNCHANGED <<isIframe, jsCtxID, jsCtxLock, helpers, helpersLock, nextObj, unsets,
                   resolvedAt, roundTrips, failed, exceptCtx>>

\* evaluate: res, err := req.Call(p); a result is returned by Evaluate at once
ReqCall(t, ok) ==
    /\ Running
    /\ eth[t].pc = "call"
    /\ eth' = [eth EXCEPT ![t] = IF ok THEN Returns([@ EXCEPT !.res = "ok"]) ELSE Fails(@)]
    /\ UNCHANGED <<isIframe, jsCtxID, jsCtxLock, helpers, helpersLock, nextObj, evals,
                   unsets, resolvedAt, roundTrips, failed, exceptCtx>>

\* (a slip: every error is taken for recoverable)
RetriesAlways(ctxNotFound, thisObj) == TRUE

\* Evaluate goes round again: the error is ErrCtxNotFound and ThisObj is nil
Retries(ctxNotFound, thisObj) == ctxNotFound /\ ~thisObj

\* unsetJSCtxID: *p.jsCtxID = ""
Unset(id) == 0

\* Evaluate looks at the error of evaluate (ctxNotFound: errors.Is(err,
\* cdp.ErrCtxNotFound)): it returns ErrObjectNotFound or the error itself, or
\* sleeps, calls p.unsetJSCtxID() and goes round again
HandleError(t, ctxNotFound) ==
    /\ Running
    /\ eth[t].pc = "failed"
    /\ LET d == [eth[t] EXCEPT !.lastErr = IF ctxNotFound THEN "ErrCtxNotFound" ELSE "other"] IN
       IF Retries(ctxNotFound, d.thisObj)
       THEN /\ CanLock(jsCtxLock)
            /\ jsCtxID' = Unset(jsCtxID)
            /\ unsets' = IF jsCtxID # 0 /\ unsets < MaxUnsets THEN unsets + 1 ELSE unsets
            /\ eth' = [eth EXCEPT ![t] =
                  StartAttempt([d EXCEPT
                      !.attempt = IF @ < MaxAttempts THEN @ + 1 ELSE @,
                      !.didUnset = TRUE,
                      !.lastFailed = IF d.objectID # 0 THEN d.objectID ELSE d.ctx,
                      !.ctx = 0, !.objectID = 0, !.helperCtx = 0, !.id = 0])]
       ELSE /\ eth' = [eth EXCEPT ![t] =
                  Returns([d EXCEPT !.res = IF ctxNotFound THEN "ErrObjectNotFound"
                                             ELSE "err"])]
            /\ UNCHANGED <<jsCtxID, unsets>>
    /\ UNCHANGED <<isIframe, jsCtxLock, helpers, helpersLock, nextObj, evals,
                   resolvedAt, roundTrips, failed, exceptCtx>>

EvalNext ==
    \/ Frame
    \/ \E t \in EThreads, thisObj \in BOOLEAN, jsArg \in BOOLEAN : Evaluate(t, thisObj, jsArg)
    \/ \E t \in EThreads : LockCtx(t)
    \/ \E t \in EThreads, ok \in BOOLEAN : RuntimeEvaluate(t, ok)
    \/ \E t \in EThreads : ClearHelpers(t)
    \/ \E t \in EThreads, ok \in BOOLEAN : ResolveNode(t, ok)
    \/ \E t \in EThreads : DeleteHelpers(t)
    \/ \E t \in EThreads, ok \in BOOLEAN : jsCtxIDByObjectID(t, ok)
    \/ \E t \in EThreads : GetHelper(t)
    \/ \E t \in EThreads, ok \in BOOLEAN : CallFunctionOn(t, ok)
    \/ \E t \in EThreads, ok \in BOOLEAN : ReqCall(t, ok)
    \/ \E t \in EThreads, ctxNotFound \in BOOLEAN : HandleError(t, ctxNotFound)

\* ------------------------------------------------- Browser.Call and LoadState

FetchDisableM == <<"Fetch", "disable">>
CacheMethods == {FetchEnableM, FetchDisableM, SetDeviceMetricsM, ClearDeviceMetricsM,
                 SetGeolocationM, ClearGeolocationM}

\* A request without fields, as proto.FetchDisableM{}
NoParams == "{}"

\* The params Browser.Call is given with a method: the request itself, and nil
\* for the "disable" sent by EnableDomain and DisableDomain
ParamsOf(methodName) ==
    IF methodName[2] = "disable" THEN {NoParams, Nil}
    ELSE IF methodName \in {ClearDeviceMetricsM, ClearGeolocationM} THEN {NoParams}
    ELSE Payloads

\* What the caller of LoadState passes: a request with fields of its own
Template == "T"

NoLoad == [sessionID |-> 0, methodName |-> <<>>, returned |-> FALSE, has |-> FALSE,
           method |-> Template]

CacheInit ==
    /\ last = <<>>
    /\ writes = 0
    /\ loaded = NoLoad

\* Browser.Call: b.client.Call, and b.set after an answer without error
BrowserCall(sessionID, methodName, params, ok) ==
    /\ writes < MaxWrites
    /\ writes' = writes + 1
    /\ states' = IF ok THEN set(states, sessionID, methodName, params) ELSE states
    /\ last' = IF ok THEN Store(last, key(sessionID, methodName),
                                [params |-> params, at |-> writes + 1])
                ELSE last
    /\ loaded' = NoLoad
    /\ UNCHANGED exceptCache

\* Browser.LoadState: reflect.Indirect(reflect.ValueOf(method)).Set(...) copies
\* the stored request into method; for a stored nil the argument of Set is the
\* zero Value and Set panics
LoadState(st, sessionID, methodName, method) ==
    LET k == key(sessionID, methodName) IN
    IF ~Has(st, k)
    THEN [sessionID |-> sessionID, methodName |-> methodName, returned |-> TRUE,
          has |-> FALSE, method |-> method]
    ELSE IF st[k] = Nil
    THEN [sessionID |-> sessionID, methodName |-> methodName, returned |-> FALSE,
          has |-> TRUE, method |-> method]
    ELSE [sessionID |-> sessionID, methodName |-> methodName, returned |-> TRUE,
          has |-> TRUE, method |-> st[k]]

\* A call of b.LoadState(sessionID, &method). It changes nothing in the cache,
\* so one call of it is followed between two calls of Browser.Call
Load(sessionID, methodName) ==
    /\ loaded = NoLoad
    /\ loaded' = LoadState(states, sessionID, methodName, Template)
    /\ UNCHANGED <<states, last, writes, exceptCache>>

CacheNext ==
    \/ \E sid \in Sessions, m \in CacheMethods, ok \in BOOLEAN :
          \E params \in ParamsOf(m) : BrowserCall(sid, m, params, ok)
    \/ \E sid \in Sessions, m \in CacheMethods : Load(sid, m)

\* ------------------------------------------------------------- Browser.Event

Subscribers == 1 .. MaxSubscribers

\* A stream nobody has asked for yet.  buf is what the bus holds for the
\* subscriber, relay and e are the goroutine of Browser.Event (dst is closed
\* when it is done), received and stopped the consumer, cancelled the scope
\* b.ctx
NoStream ==
    [relay |-> "none", buf |-> <<>>, e |-> 0, received |-> <<>>,
     stopped |-> FALSE, cancelled |-> FALSE]

EventsInit ==
    /\ published = 0
    /\ subs = [s \in Subscribers |-> NoStream]

\* The bus: the subscriptions on its fan-out list are those made with
\* Subscribe(scope) whose scope has not ended
Listed(d) == d.relay # "none" /\ ~d.cancelled

\* The bus: Publish(event) hands the event to every live subscription, in
\* publish order, without waiting for any subscriber
BusPublish(d, event) == IF Listed(d) THEN [d EXCEPT !.buf = Append(@, event)] ELSE d

\* The bus: a subscription whose scope ends leaves the fan-out list and what
\* was held for it is released
BusUnsubscribe(d) == [d EXCEPT !.buf = <<>>]

\* Browser.Event: src := b.event.Subscribe(b.ctx), dst := make(chan *Message)
\* and the relay goroutine is started.  The streams are asked for before the
\* transport produces its first event and, being alike, in the order of their
\* numbers
Event(s) ==
    /\ subs[s].relay = "none"
    /\ published = 0
    /\ \A u \in Subscribers : u < s => subs[u].relay # "none"
    /\ subs' = [subs EXCEPT ![s].relay = "recv"]
    /\ UNCHANGED <<published, exceptEvents>>

\* initEvents: for e := range event { b.event.Publish(&Message{...}) }
Publish ==
    /\ published < MaxEvents
    /\ published' = published + 1
    /\ subs' = [s \in Subscribers |-> BusPublish(subs[s], published + 1)]
    /\ UNCHANGED exceptEvents

\* The relay: case e, ok := <-src, with an event
RelayRecv(s) ==
    /\ subs[s].relay = "recv"
    /\ subs[s].buf # <<>>
    /\ subs' = [subs EXCEPT ![s].relay = "send", ![s].e = Head(subs[s].buf),
                            ![s].buf = Tail(subs[s].buf)]
    /\ UNCHANGED <<published, exceptEvents>>

\* (a slip: the event is not handed on)
ForwardNothing(received, e) == received

\* case dst <- e.(*Message): what the consumer has got
Forward(received, e) == Append(received, e)

\* The relay: case dst <- e.(*Message), the consumer being at its receive
RelaySend(s) ==
    /\ subs[s].relay = "send"
    /\ ~subs[s].stopped
    /\ subs' = [subs EXCEPT ![s].relay = "recv", ![s].e = 0,
                            ![s].received = Forward(@, subs[s].e)]
    /\ UNCHANGED <<published, exceptEvents>>

\* (a slip: the relay does not look at its scope)
DoneNever(d) == FALSE

\* <-b.ctx.Done() can be received
Done(d) == d.cancelled

\* The relay: case <-b.ctx.Done() of either select, or src closed: return,
\* and the deferred close(dst); an event in its hand is dropped
RelayDone(s) ==
    /\ subs[s].relay \in {"recv", "send"}
    /\ Done(subs[s])
    /\ subs' = [subs EXCEPT ![s].relay = "done"]
    /\ UNCHANGED <<published, exceptEvents>>

\* The goroutine of Browser.Event
Relay(s) == RelayRecv(s) \/ RelaySend(s) \/ RelayDone(s)

\* The scope of a stream (b.ctx of the Browser that Event was called on) is
\* cancelled
Cancel(s) ==
    /\ subs[s].relay # "none"
    /\ ~subs[s].cancelled
    /\ subs' = [subs EXCEPT ![s] = [BusUnsubscribe(@) EXCEPT !.cancelled = TRUE]]
    /\ UNCHANGED <<published, exceptEvents>>

\* The consumer of an open stream stops reading it
Stop(s) ==
    /\ subs[s].relay \in {"recv", "send"}
    /\ ~subs[s].stopped
    /\ subs' = [subs EXCEPT ![s].stopped = TRUE]
    /\ UNCHANGED <<published, exceptEvents>>

EventsNext ==
    \/ \E s \in Subscribers : Event(s)
    \/ Publish
    \/ \E s \in Subscribers : RelayRecv(s)
    \/ \E s \in Subscribers : RelaySend(s)
    \/ \E s \in Subscribers : RelayDone(s)
    \/ \E s \in Subscribers : Cancel(s)
    \/ \E s \in Subscribers : Stop(s)

\* The transport goes on producing events, the goroutines of the relays go on
\* running, and a consumer that has not stopped goes on reading
EventsFair == WF_vars(Publish) /\ \A s \in Subscribers : WF_vars(Relay(s))

\* ---------------------------------------------------------- Browser.eachEvent

PageDisableM == <<"Page", "disable">>

\* The events of the transport: the event the callback is for, in the session
\* of the caller and in another one, and an event no callback is for
LoadEventFired == "Page.loadEventFired"
EventKinds == {[method |-> LoadEventFired, session |-> 1],
               [method |-> LoadEventFired, session |-> 2],
               [method |-> "Page.frameNavigated", session |-> 1]}

\* sessionID: "" (0) for Browser.EachEvent / WaitEvent, the session of a page
\* otherwise; kind: WaitEvent's callback returns true, EachEvent's is the
\* caller's; enabled: what EnableDomain found in the cache; messages: the
\* variable of that name ("none" before it is assigned); relay, buf, e,
\* cancelled: the stream of b.Event() as in NoStream; scope: the context
\* eachEvent was called with has been cancelled; subAt: the number of events
\* produced when the stream was subscribed; got: messages the loop has taken;
\* seen: the events the callback was called with (their numbers); res: what
\* the callback returned last; calls: invocations of the wait function
NoWait ==
    [pc |-> "idle", sessionID |-> 0, kind |-> "", enabled |-> FALSE,
     messages |-> "none", relay |-> "none", buf |-> <<>>, e |-> 0,
     cancelled |-> FALSE, scope |-> FALSE, subAt |-> 0, got |-> 0, seen |-> <<>>,
     res |-> "", calls |-> 0]

WaitInit ==
    /\ wt = NoWait
    /\ emitted = <<>>

\* Before eachEvent is called somebody has enabled the domain: a Page.enable
\* call of session sid was recorded
EnabledBefore(sid) ==
    /\ wt.pc = "idle"
    /\ \A o \in {0, 1} : ~Has(states, key(o, PageEnableM))
    /\ states' = set(states, sid, PageEnableM, "PageEnable")
    /\ UNCHANGED <<wt, emitted, exceptWait>>

\* (a slip: the stream is asked for when the wait function runs)
SubscribedLate(d) == [d EXCEPT !.pc = "ready", !.subAt = Len(emitted)]

\* b, cancel := b.WithCancel(); messages := b.Event(): the subscription is
\* made and the relay started before eachEvent returns the wait function
Subscribed(d) ==
    [d EXCEPT !.pc = "ready", !.messages = "chan", !.relay = "recv",
              !.subAt = Len(emitted)]

\* eachEvent with one callback: EnableDomain looks the domain up in the cache
\* and calls Page.enable only if it is not there
EachEvent(sid, kind) ==
    /\ wt.pc = "idle"
    /\ LET enabled == Has(states, key(sid, PageEnableM))
           d == [wt EXCEPT !.sessionID = sid, !.kind = kind, !.enabled = enabled]
       IN  wt' = IF EnableCalls(enabled) THEN [d EXCEPT !.pc = "enable"] ELSE Subscribed(d)
    /\ UNCHANGED <<states, emitted, exceptWait>>

\* The Page.enable call of EnableDomain, its error dropped; Browser.Call
\* records the call when the transport answered it
EnableCall(ok) ==
    /\ wt.pc = "enable"
    /\ states' = IF ok THEN set(states, wt.sessionID, PageEnableM, "PageEnable") ELSE states
    /\ wt' = Subscribed(wt)
    /\ UNCHANGED <<emitted, exceptWait>>

\* initEvents: the transport produces an event and the bus publishes it
Emit(ev) ==
    /\ Len(emitted) < MaxEmits
    /\ emitted' = Append(emitted, ev)
    /\ wt' = BusPublish(wt, Len(emitted) + 1)
    /\ UNCHANGED <<states, exceptWait>>

\* The relay of the stream: case e, ok := <-src
WaitRelayRecv ==
    /\ wt.relay = "recv"
    /\ wt.buf # <<>>
    /\ wt' = [wt EXCEPT !.relay = "send", !.e = Head(wt.buf), !.buf = Tail(wt.buf)]
    /\ UNCHANGED <<states, emitted, exceptWait>>

\* The relay: <-b.ctx.Done(), return and close(dst)
WaitRelayDone ==
    /\ wt.relay \in {"recv", "send"}
    /\ Done(wt)
    /\ wt' = [wt EXCEPT !.relay = "done"]
    /\ UNCHANGED <<states, emitted, exceptWait>>

\* (a slip: the wait function does not look at messages)
UsableAlways(messages) == TRUE

\* if messages == nil { panic("can't use wait function twice") }
Usable(messages) == messages # "nil"

\* The wait function is invoked for the first time
Wait ==
    /\ wt.pc = "ready"
    /\ wt' = [wt EXCEPT !.calls = 1, !.pc = IF Usable(wt.messages) THEN "range" ELSE "panic"]
    /\ UNCHANGED <<states, emitted, exceptWait>>

\* The wait function is invoked again after it has returned
WaitAgain ==
    /\ wt.pc = "returned"
    /\ wt.calls = 1
    /\ wt' = [wt EXCEPT !.calls = 2, !.pc = IF Usable(wt.messages) THEN "range" ELSE "panic"]
    /\ UNCHANGED <<states, emitted, exceptWait>>

\* The session filter and the lookup in cbMap
Awaited(d, ev) ==
    /\ d.sessionID = 0 \/ ev.session = d.sessionID
    /\ ev.method = LoadEventFired

\* What a callback gives back: true, false, or nothing when its function has
\* no result
Results == {"true", "false", "void"}

\* (a slip: any boolean result ends the loop)
CallbackStopsOnResult(res) == res # "void"

\* if len(res) > 0 { if res[0].Bool() { return } }
CallbackStops(res) == res = "true"

\* for msg := range messages: the relay hands the message over, the callback
\* is called if the message is for it, and the function returns if the
\* callback returned true
Receive(res) ==
    /\ wt.pc = "range"
    /\ wt.messages = "chan"
    /\ wt.relay = "send"
    /\ wt.kind = "WaitEvent" => res = "true"
    /\ Awaited(wt, emitted[wt.e]) \/ res = "true"
    /\ LET d == [wt EXCEPT !.relay = "recv", !.e = 0, !.got = @ + 1] IN
       wt' = IF Awaited(wt, emitted[wt.e])
             THEN [d EXCEPT !.seen = Forward(@, wt.e), !.res = res,
                            !.pc = IF CallbackStops(res) THEN "defer" ELSE "range"]
             ELSE d
    /\ UNCHANGED <<states, emitted, exceptWait>>

\* The channel is closed: the loop ends
Closed ==
    /\ wt.pc = "range"
    /\ wt.messages = "chan"
    /\ wt.relay = "done"
    /\ wt' = [wt EXCEPT !.pc = "defer"]
    /\ UNCHANGED <<states, emitted, exceptWait>>

\* The deferred function: cancel(), messages = nil; the restore of
\* EnableDomain is next and calls only if the domain was not enabled
WaitDeferred ==
    /\ wt.pc = "defer"
    /\ wt' = [BusUnsubscribe(wt) EXCEPT !.cancelled = TRUE, !.messages = "nil",
                 !.pc = IF EnableCalls(wt.enabled) THEN "restore" ELSE "returned"]
    /\ UNCHANGED <<states, emitted, exceptWait>>

\* The restore of EnableDomain: Page.disable is called with the context
\* eachEvent was called with, its error dropped
WaitRestore(ok) ==
    /\ wt.pc = "restore"
    /\ states' = IF ok THEN set(states, wt.sessionID, PageDisableM, Nil) ELSE states
    /\ wt' = [wt EXCEPT !.pc = "returned"]
    /\ UNCHANGED <<emitted, exceptWait>>

\* The context eachEvent was called with is cancelled, and with it the context
\* of the stream
WaitScopeCancel ==
    /\ wt.pc \in {"ready", "range"}
    /\ ~wt.scope
    /\ wt' = [BusUnsubscribe(wt) EXCEPT !.scope = TRUE, !.cancelled = TRUE]
    /\ UNCHANGED <<states, emitted, exceptWait>>

\* The goroutine of the caller, up to the return of the wait function
Waiter ==
    \/ \E ok \in BOOLEAN : EnableCall(ok)
    \/ Wait
    \/ \E res \in Results : Receive(res)
    \/ Closed
    \/ WaitDeferred
    \/ \E ok \in BOOLEAN : WaitRestore(ok)

WaitRelay == WaitRelayRecv \/ WaitRelayDone

WaitNext ==
    \/ \E sid \in {0, 1} : EnabledBefore(sid)
    \/ \E sid \in {0, 1}, kind \in {"WaitEvent", "EachEvent"} : EachEvent(sid, kind)
    \/ \E ev \in EventKinds : Emit(ev)
    \/ Waiter
    \/ WaitRelay
    \/ WaitAgain
    \/ WaitScopeCancel

\* The caller goes on (the wait function is invoked after some delay) and so
\* does the relay
WaitFair == WF_vars(Waiter) /\ WF_vars(WaitRelay)

\* --------------------------------------------------------- Browser.HandleAuth

RequestPausedE == "Fetch.requestPaused"
AuthRequiredE == "Fetch.authRequired"

\* The two waits of HandleAuth and the event each is for
AuthWaits == {"paused", "auth"}
EventOf(which) == IF which = "paused" THEN RequestPausedE ELSE AuthRequiredE

\* The parameters of the Fetch.enable calls: what a caller had enabled Fetch
\* with before, &proto.FetchEnable{} and FetchEnable{HandleAuthRequests: true}
PriorFetchEnable == "Patterns"
EmptyFetchEnable == "FetchEnable{}"
AuthFetchEnable == "HandleAuthRequests"

\* enabled: what DisableDomain found in the cache, with params its value;
\* disabled: what EnableDomain found ("enabled" of its closure); paused, auth:
\* the events loaded by the two waits (their numbers, 0 for the zero value);
\* scope: b.ctx has been cancelled; err: what the function returned
NoAuth ==
    [pc |-> "idle", enabled |-> FALSE, params |-> Nil, disabled |-> FALSE,
     paused |-> 0, auth |-> 0, scope |-> FALSE, err |-> FALSE]

\* A stream of b.Context(ctx).WaitEvent: enabled is what the EnableDomain of
\* eachEvent found in the cache, the rest as in NoWait
NoAuthStream ==
    [enabled |-> FALSE, messages |-> "none", relay |-> "none", buf |-> <<>>, e |-> 0,
     cancelled |-> FALSE]

AuthInit ==
    /\ ha = NoAuth
    /\ waits = [which \in AuthWaits |-> NoAuthStream]
    /\ authEmitted = <<>>
    /\ authCalls = <<>>

FetchKey == key(RouterSession, FetchEnableM)

\* Browser.Call with the transport's answer: recorded only when answered
CallRecorded(st, methodName, params, ok) ==
    IF ok THEN set(st, RouterSession, methodName, params) ELSE st

\* Before HandleAuth is called somebody has enabled Fetch with its patterns
FetchEnabledBefore ==
    /\ ha.pc = "idle"
    /\ ~Has(states, FetchKey)
    /\ states' = set(states, RouterSession, FetchEnableM, PriorFetchEnable)
    /\ UNCHANGED <<authVars, exceptAuth>>

\* enable := b.DisableDomain("", &proto.FetchEnable{})
HandleAuth(ok) ==
    /\ ha.pc = "idle"
    /\ LET enabled == Has(states, FetchKey) IN
       /\ ha' = [ha EXCEPT !.pc = "enable", !.enabled = enabled,
                           !.params = IF enabled THEN states[FetchKey] ELSE Nil]
       /\ states' = IF DisableCalls(enabled)
                    THEN CallRecorded(states, FetchDisableM, Nil, ok) ELSE states
       /\ enabled \/ ok
    /\ UNCHANGED <<waits, authEmitted, authCalls, exceptAuth>>

\* disable := b.EnableDomain("", &proto.FetchEnable{HandleAuthRequests: true})
AuthEnable(ok) ==
    /\ ha.pc = "enable"
    /\ LET enabled == Has(states, FetchKey) IN
       /\ ha' = [ha EXCEPT !.pc = "paused", !.disabled = ~enabled]
       /\ states' = IF EnableCalls(enabled)
                    THEN CallRecorded(states, FetchEnableM, AuthFetchEnable, ok) ELSE states
       /\ ~enabled \/ ok
    /\ UNCHANGED <<waits, authEmitted, authCalls, exceptAuth>>

\* waitPaused := b.Context(ctx).WaitEvent(paused) and then waitAuth := ...:
\* eachEvent enables Fetch with new parameters if the cache does not hold it,
\* and subscribes
AuthWaitEvent(which, ok) ==
    /\ ha.pc = which
    /\ LET enabled == Has(states, FetchKey) IN
       /\ waits' = [waits EXCEPT ![which] =
                    [@ EXCEPT !.enabled = enabled, !.messages = "chan", !.relay = "recv",
                              !.cancelled = ha.scope]]
       /\ states' = IF EnableCalls(enabled)
                    THEN CallRecorded(states, FetchEnableM, EmptyFetchEnable, ok) ELSE states
       /\ ~enabled \/ ok
    /\ ha' = [ha EXCEPT !.pc = IF which = "paused" THEN "auth" ELSE "ready"]
    /\ UNCHANGED <<authEmitted, authCalls, exceptAuth>>

\* initEvents: the transport produces a Fetch event and the bus publishes it
AuthEmit(method) ==
    /\ Len(authEmitted) < MaxAuthEvents
    /\ authEmitted' = Append(authEmitted, method)
    /\ waits' = [which \in AuthWaits |-> BusPublish(waits[which], Len(authEmitted) + 1)]
    /\ UNCHANGED <<states, ha, authCalls, exceptAuth>>

\* The relay of a stream: case e, ok := <-src
AuthRelayRecv(which) ==
    /\ waits[which].relay = "recv"
    /\ waits[which].buf # <<>>
    /\ waits' = [waits EXCEPT ![which].relay = "send", ![which].e = Head(waits[which].buf),
                        ![which].buf = Tail(waits[which].buf)]
    /\ UNCHANGED <<states, ha, authEmitted, authCalls, exceptAuth>>

\* The relay: <-b.ctx.Done(), return and close(dst)
AuthRelayDone(which) ==
    /\ waits[which].relay \in {"recv", "send"}
    /\ Done(waits[which])
    /\ waits' = [waits EXCEPT ![which].relay = "done"]
    /\ UNCHANGED <<states, ha, authEmitted, authCalls, exceptAuth>>

\* The function HandleAuth returned is called: waitPaused()
AuthWait ==
    /\ ha.pc = "ready"
    /\ ha' = [ha EXCEPT !.pc = "waitPaused"]
    /\ UNCHANGED <<states, waits, authEmitted, authCalls, exceptAuth>>

\* The wait a position of the function is in
WaitOf(pc) == IF pc = "waitPaused" THEN "paused" ELSE "auth"

\* The loop of waitPaused / waitAuth takes a message: an event of its kind is
\* loaded and ends the loop
AuthReceive ==
    /\ ha.pc \in {"waitPaused", "waitAuth"}
    /\ LET which == WaitOf(ha.pc)
           d == waits[which]
       IN  /\ d.relay = "send"
           /\ waits' = [waits EXCEPT ![which].relay = "recv", ![which].e = 0]
           /\ ha' = IF authEmitted[d.e] = EventOf(which)
                    THEN [ha EXCEPT ![which] = d.e, !.pc = which \o "Deferred"]
                    ELSE ha
    /\ UNCHANGED <<states, authEmitted, authCalls, exceptAuth>>

\* The channel of the wait is closed: its loop ends with no event loaded
AuthClosed ==
    /\ ha.pc \in {"waitPaused", "waitAuth"}
    /\ waits[WaitOf(ha.pc)].relay = "done"
    /\ ha' = [ha EXCEPT !.pc = WaitOf(ha.pc) \o "Deferred"]
    /\ UNCHANGED <<states, waits, authEmitted, authCalls, exceptAuth>>

\* The deferred function of waitPaused / waitAuth: cancel(), messages = nil and
\* the restore of its EnableDomain; then the call that follows the wait
AuthWaitDeferred(which, ok) ==
    /\ ha.pc = which \o "Deferred"
    /\ waits' = [waits EXCEPT ![which] =
                 [BusUnsubscribe(@) EXCEPT !.cancelled = TRUE, !.messages = "nil"]]
    /\ states' = IF EnableCalls(waits[which].enabled)
                 THEN CallRecorded(states, FetchDisableM, Nil, ok) ELSE states
    /\ waits[which].enabled => ok
    /\ ha' = [ha EXCEPT !.pc = IF which = "paused" THEN "continue" ELSE "answer"]
    /\ UNCHANGED <<authEmitted, authCalls, exceptAuth>>

\* err = proto.FetchContinueRequest{...}.Call(b); if err != nil { return }
AfterContinue(ok) == IF ok THEN "waitAuth" ELSE "deferred"

\* proto.FetchContinueRequest{RequestID: paused.RequestID}.Call(b)
AuthContinue(ok) ==
    /\ ha.pc = "continue"
    /\ authCalls' = Append(authCalls, [method |-> "continueRequest", id |-> ha.paused])
    /\ ha' = [ha EXCEPT !.pc = AfterContinue(ok), !.err = ~ok]
    /\ UNCHANGED <<states, waits, authEmitted, exceptAuth>>

\* proto.FetchContinueWithAuth{RequestID: auth.RequestID, ...}.Call(b)
AuthAnswer(ok) ==
    /\ ha.pc = "answer"
    /\ authCalls' = Append(authCalls, [method |-> "continueWithAuth", id |-> ha.auth])
    /\ ha' = [ha EXCEPT !.pc = "deferred", !.err = ~ok]
    /\ UNCHANGED <<states, waits, authEmitted, exceptAuth>>

\* defer cancel(), defer disable(): both streams end, and the restore of
\* EnableDomain calls Fetch.disable if Fetch was not enabled
AuthDisable(ok) ==
    /\ ha.pc = "deferred"
    /\ waits' = [which \in AuthWaits |-> [BusUnsubscribe(waits[which]) EXCEPT !.cancelled = TRUE]]
    /\ states' = IF ha.disabled THEN CallRecorded(states, FetchDisableM, Nil, ok) ELSE states
    /\ ha.disabled \/ ok
    /\ ha' = [ha EXCEPT !.pc = "restore"]
    /\ UNCHANGED <<authEmitted, authCalls, exceptAuth>>

\* defer enable(): the restore of DisableDomain calls Fetch.enable with the
\* request DisableDomain was given if Fetch was enabled
AuthRestore(ok) ==
    /\ ha.pc = "restore"
    /\ states' = IF DisableCalls(ha.enabled)
                 THEN CallRecorded(states, FetchEnableM, EmptyFetchEnable, ok) ELSE states
    /\ ha.enabled \/ ok
    /\ ha' = [ha EXCEPT !.pc = "returned"]
    /\ UNCHANGED <<waits, authEmitted, authCalls, exceptAuth>>

\* b.ctx is cancelled, and with it the contexts of the streams
AuthScopeCancel ==
    /\ ha.pc \in {"ready", "waitPaused", "waitAuth"}
    /\ ~ha.scope
    /\ ha' = [ha EXCEPT !.scope = TRUE]
    /\ waits' = [which \in AuthWaits |-> [BusUnsubscribe(waits[which]) EXCEPT !.cancelled = TRUE]]
    /\ UNCHANGED <<states, authEmitted, authCalls, exceptAuth>>

AuthNext ==
    \/ FetchEnabledBefore
    \/ \E ok \in BOOLEAN : HandleAuth(ok)
    \/ \E ok \in BOOLEAN : AuthEnable(ok)
    \/ \E which \in AuthWaits, ok \in BOOLEAN : AuthWaitEvent(which, ok)
    \/ \E method \in {RequestPausedE, AuthRequiredE} : AuthEmit(method)
    \/ \E which \in AuthWaits : AuthRelayRecv(which)
    \/ \E which \in AuthWaits : AuthRelayDone(which)
    \/ AuthWait
    \/ AuthReceive
    \/ AuthClosed
    \/ \E which \in AuthWaits, ok \in BOOLEAN : AuthWaitDeferred(which, ok)
    \/ \E ok \in BOOLEAN : AuthContinue(ok)
    \/ \E ok \in BOOLEAN : AuthAnswer(ok)
    \/ \E ok \in BOOLEAN : AuthDisable(ok)
    \/ \E ok \in BOOLEAN : AuthRestore(ok)
    \/ AuthScopeCancel

\* The caller of a page that one goroutine uses
Caller == CHOOSE t \in EThreads : \A u \in EThreads : t <= u

RetryNext ==
    \/ Frame
    \/ \E thisObj \in BOOLEAN, jsArg \in BOOLEAN : Evaluate(Caller, thisObj, jsArg)
    \/ LockCtx(Caller)
    \/ \E ok \in BOOLEAN : RuntimeEvaluate(Caller, ok)
    \/ ClearHelpers(Caller)
    \/ \E ok \in BOOLEAN : ResolveNode(Caller, ok)
    \/ DeleteHelpers(Caller)
    \/ \E ok \in BOOLEAN : jsCtxIDByObjectID(Caller, ok)
    \/ GetHelper(Caller)
    \/ \E ok \in BOOLEAN : CallFunctionOn(Caller, ok)
    \/ \E ok \in BOOLEAN : ReqCall(Caller, ok)
    \/ \E ctxNotFound \in BOOLEAN : HandleError(Caller, ctxNotFound)

\* ---------------------------------------------------------------- PagePool

Getters == 1 .. MaxGetters

\* NewPagePool(limit): a channel of capacity limit filled with nil
NewPagePool(limit) == [n \in 1 .. limit |-> 0]

PoolInit ==
    /\ pp = NewPagePool(PoolLimit)
    /\ getters = [g \in Getters |-> [pc |-> "idle", p |-> 0]]
    /\ created = 0

\* (a slip: the receive leaves the item in the channel)
RecvPeek(ch) == ch

\* p := <-pp: what the receive leaves in the channel
Recv(ch) == Tail(ch)

\* PagePool.Get up to its receive, which blocks while the channel is empty
Get(g) ==
    /\ getters[g].pc = "idle"
    /\ Len(pp) > 0
    /\ pp' = Recv(pp)
    /\ getters' = [getters EXCEPT ![g] =
                       [pc |-> IF Head(pp) = 0 THEN "create" ELSE "got", p |-> Head(pp)]]
    /\ UNCHANGED <<created, exceptPool>>

\* PagePool.Get for a nil item: p = create(); a create function that fails
\* gives nil
Create(g, ok) ==
    /\ getters[g].pc = "create"
    /\ created' = IF ok THEN created + 1 ELSE created
    /\ getters' = [getters EXCEPT ![g] = [pc |-> "got", p |-> IF ok THEN created + 1 ELSE 0]]
    /\ UNCHANGED <<pp, exceptPool>>

\* PagePool.Put of the page the caller got; the send blocks while the channel
\* is full
Put(g) ==
    /\ getters[g].pc = "got"
    /\ Len(pp) < PoolLimit
    /\ pp' = Append(pp, getters[g].p)
    /\ getters' = [getters EXCEPT ![g] = [pc |-> "idle", p |-> 0]]
    /\ UNCHANGED <<created, exceptPool>>

PoolNext == \E g \in Getters : Get(g) \/ (\E ok \in BOOLEAN : Create(g, ok)) \/ Put(g)

\* the items callers have received and not put back
CheckedOut == Cardinality({g \in Getters : getters[g].pc # "idle"})

\* -------------------------------------------------------------- KeyActions

Keys == 1 .. MaxKeys

KeyActionPress == "press"
KeyActionRelease == "release"
KeyActionTypeKey == "type"

\* the second half of Keyboard.Type: the release that follows its press
TypeRelease == "typeRelease"

\* Page.newKeyboard and Page.KeyActions
KeyInit ==
    /\ pressed = {}
    /\ ka = [pc |-> "record", Actions |-> <<>>, balanced |-> <<>>, todo |-> <<>>, before |-> {}]

\* Keyboard.Press called directly, before the actions are recorded
PressBefore(k) ==
    /\ ka.pc = "record"
    /\ ka.Actions = <<>>
    /\ k \notin pressed
    /\ pressed' = pressed \cup {k}
    /\ UNCHANGED <<ka, exceptKey>>

\* KeyActions.Press, KeyActions.Release and KeyActions.Type with one key
Record(type, k) ==
    /\ ka.pc = "record"
    /\ Len(ka.Actions) < MaxKeyActions
    /\ ka' = [ka EXCEPT !.Actions = Append(@, [Type |-> type, Key |-> k])]
    /\ UNCHANGED <<pressed, exceptKey>>

\* (a slip: no key is found to need a release)
NeedReleaseNever(actions, k) == FALSE

\* KeyActions.balance, first loop: h[key] after the walk over the actions
NeedRelease(actions, k) ==
    LET named == {n \in 1 .. Len(actions) : actions[n].Key = k}
        lastOf == CHOOSE n \in named : \A m \in named : m <= n
    IN  named # {} /\ actions[lastOf].Type = KeyActionPress

\* the orders in which a range over a map can give the keys of S
RECURSIVE MapOrders(_)
MapOrders(S) ==
    IF S = {} THEN {<<>>}
    ELSE UNION {{<<k>> \o rest : rest \in MapOrders(S \ {k})} : k \in S}

\* KeyActions.balance: the actions with a release appended for every key of h
\* that needs one, in the order the range over h gives them
balance(actions) ==
    {actions \o [n \in 1 .. Len(order) |-> [Type |-> KeyActionRelease, Key |-> order[n]]] :
        order \in MapOrders({k \in Keys : NeedRelease(actions, k)})}

\* KeyActions.Do up to its loop
Do ==
    /\ ka.pc = "record"
    /\ \E actions \in balance(ka.Actions) :
        ka' = [ka EXCEPT !.pc = IF actions = <<>> THEN "done" ELSE "do",
                         !.balanced = actions, !.todo = actions, !.before = pressed]
    /\ UNCHANGED <<pressed, exceptKey>>

\* the state of KeyActions.Do after an action that returned err
AfterAction(rest, err) ==
    IF err THEN [ka EXCEPT !.pc = "err", !.todo = rest]
    ELSE [ka EXCEPT !.pc = IF rest = <<>> THEN "done" ELSE "do", !.todo = rest]

\* Keyboard.Press from the loop of Do; ok is the remote's answer to the
\* key-down event.  For a type action the release of Keyboard.Type is next.
DoPress(ok) ==
    /\ ka.pc = "do"
    /\ Head(ka.todo).Type \in {KeyActionPress, KeyActionTypeKey}
    /\ pressed' = pressed \cup {Head(ka.todo).Key}
    /\ ka' = IF Head(ka.todo).Type = KeyActionTypeKey /\ ok
             THEN [ka EXCEPT !.todo = <<[Type |-> TypeRelease, Key |-> Head(ka.todo).Key]>> \o Tail(@)]
             ELSE AfterAction(Tail(ka.todo), ~ok)
    /\ UNCHANGED exceptKey

\* Keyboard.Release from the loop of Do or from Keyboard.Type: nothing is sent
\* for a key that is not pressed
DoRelease(ok) ==
    /\ ka.pc = "do"
    /\ Head(ka.todo).Type \in {KeyActionRelease, TypeRelease}
    /\ Head(ka.todo).Key \in pressed \/ ok
    /\ pressed' = pressed \ {Head(ka.todo).Key}
    /\ ka' = AfterAction(Tail(ka.todo), Head(ka.todo).Key \in pressed /\ ~ok)
    /\ UNCHANGED exceptKey

KeyNext ==
    \/ \E k \in Keys : PressBefore(k)
    \/ \E type \in {KeyActionPress, KeyActionRelease, KeyActionTypeKey}, k \in Keys : Record(type, k)
    \/ Do
    \/ \E ok \in BOOLEAN : DoPress(ok) \/ DoRelease(ok)

\* ---------------------------------------------------------- chained contexts

\* no timeoutContextVal is stored in the context
NoVal == [parent |-> 0, cancel |-> 0]

\* the first object, made with context 0
ChainInit ==
    /\ ctxs = <<>>
    /\ clones = <<[ctx |-> 0, op |-> "New", from |-> 0]>>
    /\ panicked = FALSE

Clones == 1 .. Len(clones)

\* (a slip: the value remembers the new context as its parent)
timeoutContextValSelf(parent, cancel) == [parent |-> cancel, cancel |-> cancel]

\* &timeoutContextVal{b.ctx, cancel}
timeoutContextVal(parent, cancel) == [parent |-> parent, cancel |-> cancel]

\* context.WithCancel / context.WithTimeout / context.WithValue of parent
Derived(kind, parent, val) == [kind |-> kind, parent |-> parent, cancelled |-> FALSE, val |-> val]

\* ctx.Value(timeoutContextKey{}): the value of the nearest context, from c
\* upwards, that carries one
RECURSIVE Value(_)
Value(c) ==
    IF c = 0 THEN NoVal
    ELSE IF ctxs[c].kind = "value" THEN ctxs[c].val
    ELSE Value(ctxs[c].parent)

\* ctx.Done() is closed: c or a context c derives from has been cancelled or
\* has passed its deadline
RECURSIVE IsDone(_)
IsDone(c) == c # 0 /\ (ctxs[c].cancelled \/ IsDone(ctxs[c].parent))

\* b.Context(ctx): newObj := *b; newObj.ctx = ctx
Cloned(b, op, ctx) == Append(clones, [ctx |-> ctx, op |-> op, from |-> b])

\* Browser.Context / Page.Context with a context the caller has
Context(b, ctx) ==
    /\ ~panicked
    /\ Len(clones) < MaxClones + 1
    /\ clones' = Cloned(b, "Context", ctx)
    /\ UNCHANGED <<ctxs, panicked, exceptChain>>

\* Browser.Timeout / Page.Timeout
Timeout(b) ==
    /\ ~panicked
    /\ Len(clones) < MaxClones + 1
    /\ Len(ctxs) + 2 <= MaxCtxs
    /\ LET ctx == Len(ctxs) + 1
       IN  /\ ctxs' = ctxs \o <<Derived("timeout", clones[b].ctx, NoVal),
                                Derived("value", ctx, timeoutContextVal(clones[b].ctx, ctx))>>
           /\ clones' = Cloned(b, "Timeout", ctx + 1)
    /\ UNCHANGED <<panicked, exceptChain>>

\* Browser.CancelTimeout / Page.CancelTimeout
CancelTimeout(b) ==
    /\ ~panicked
    /\ Len(clones) < MaxClones + 1
    /\ LET val == Value(clones[b].ctx)
       IN  IF val = NoVal
           THEN panicked' = TRUE /\ UNCHANGED <<ctxs, clones>>
           ELSE /\ ctxs' = [ctxs EXCEPT ![val.cancel].cancelled = TRUE]
                /\ clones' = Cloned(b, "CancelTimeout", val.parent)
                /\ UNCHANGED panicked
    /\ UNCHANGED exceptChain

\* Browser.WithCancel / Page.WithCancel
WithCancel(b) ==
    /\ ~panicked
    /\ Len(clones) < MaxClones + 1
    /\ Len(ctxs) < MaxCtxs
    /\ ctxs' = Append(ctxs, Derived("cancel", clones[b].ctx, NoVal))
    /\ clones' = Cloned(b, "WithCancel", Len(ctxs) + 1)
    /\ UNCHANGED <<panicked, exceptChain>>

\* the cancel function WithCancel returned is called
CancelFunc(c) ==
    /\ ~panicked
    /\ ctxs[c].kind = "cancel"
    /\ ~ctxs[c].cancelled
    /\ ctxs' = [ctxs EXCEPT ![c].cancelled = TRUE]
    /\ UNCHANGED <<clones, panicked, exceptChain>>

\* the deadline of a context made by context.WithTimeout passes
Deadline(c) ==
    /\ ~panicked
    /\ ctxs[c].kind = "timeout"
    /\ ~ctxs[c].cancelled
    /\ ctxs' = [ctxs EXCEPT ![c].cancelled = TRUE]
    /\ UNCHANGED <<clones, panicked, exceptChain>>

ChainNext ==
    \/ \E b \in Clones, ctx \in 0 .. Len(ctxs) : Context(b, ctx)
    \/ \E b \in Clones : Timeout(b)
    \/ \E b \in Clones : CancelTimeout(b)
    \/ \E b \in Clones : WithCancel(b)
    \/ \E c \in 1 .. Len(ctxs) : CancelFunc(c)
    \/ \E c \in 1 .. Len(ctxs) : Deadline(c)

\* ------------------------------------------------ HijackRouter.Run and Stop

Paused == 1 .. MaxPaused

\* HijackRouter.initEvents: eventCtx is made, eachEvent has subscribed and
\* started the relay of its stream; r.run is the wait function, not yet called
RouterInit ==
    /\ router = [stream |-> [NoStream EXCEPT !.relay = "recv"], run |-> "idle", q |-> 0]
    /\ walks = [q \in Paused |-> "none"]
    /\ pausedEvents = 0

\* The transport produces a Fetch.requestPaused event and the bus publishes it
RouterPaused ==
    /\ pausedEvents < MaxPaused
    /\ pausedEvents' = pausedEvents + 1
    /\ router' = [router EXCEPT !.stream = BusPublish(@, pausedEvents + 1)]
    /\ UNCHANGED <<walks, exceptRouter>>

\* The relay of the stream: case e, ok := <-src
RouterRelayRecv ==
    /\ router.stream.relay = "recv"
    /\ router.stream.buf # <<>>
    /\ router' = [router EXCEPT !.stream.relay = "send", !.stream.e = Head(router.stream.buf),
                                !.stream.buf = Tail(router.stream.buf)]
    /\ UNCHANGED <<walks, pausedEvents, exceptRouter>>

\* The relay of the stream: case <-b.ctx.Done(), and the deferred close(dst)
RouterRelayDone ==
    /\ router.stream.relay \in {"recv", "send"}
    /\ Done(router.stream)
    /\ router' = [router EXCEPT !.stream.relay = "done"]
    /\ UNCHANGED <<walks, pausedEvents, exceptRouter>>

\* HijackRouter.Run: r.run(), the wait function of eachEvent, starts to range
\* over its messages
RouterRun ==
    /\ router.run = "idle"
    /\ router' = [router EXCEPT !.run = "ranging"]
    /\ UNCHANGED <<walks, pausedEvents, exceptRouter>>

\* for msg := range messages gets a message from the relay and calls the
\* callback of the router, which starts the goroutine of the walk
RouterReceive ==
    /\ router.run = "ranging"
    /\ router.stream.relay = "send"
    /\ router' = [router EXCEPT !.run = "callback", !.q = router.stream.e,
                                !.stream.relay = "recv", !.stream.e = 0]
    /\ walks' = [walks EXCEPT ![router.stream.e] = "handler"]
    /\ UNCHANGED <<pausedEvents, exceptRouter>>

\* (a slip: the callback runs the walk itself)
SpawnedInline(walk) == walk = "done"

\* go func() { ... }(): the callback can return whatever the walk is doing
Spawned(walk) == TRUE

\* The callback returns false and the loop of the wait function goes on
RouterCallbackReturns ==
    /\ router.run = "callback"
    /\ Spawned(walks[router.q])
    /\ router' = [router EXCEPT !.run = "ranging", !.q = 0]
    /\ UNCHANGED <<walks, pausedEvents, exceptRouter>>

\* The goroutine of a walk: h.handler(ctx) blocks, or the walk comes to its end
RouterWalk(q, blocks) ==
    /\ walks[q] = "handler"
    /\ walks' = [walks EXCEPT ![q] = IF blocks THEN "blocked" ELSE "done"]
    /\ UNCHANGED <<router, pausedEvents, exceptRouter>>

\* range messages ends, the channel being closed: the deferred function is next
RouterClosed ==
    /\ router.run = "ranging"
    /\ router.stream.relay = "done"
    /\ router' = [router EXCEPT !.run = "deferred"]
    /\ UNCHANGED <<walks, pausedEvents, exceptRouter>>

\* The deferred function of the wait function: cancel(), messages = nil and the
\* restores, whose calls are made under the ended scope; Run returns
RouterDeferred ==
    /\ router.run = "deferred"
    /\ router' = [router EXCEPT !.run = "returned"]
    /\ UNCHANGED <<walks, pausedEvents, exceptRouter>>

\* HijackRouter.Stop: r.stop() cancels eventCtx, and with it the scope of the
\* stream; the Fetch.disable call follows
RouterStop ==
    /\ ~router.stream.cancelled
    /\ router' = [router EXCEPT !.stream = [BusUnsubscribe(@) EXCEPT !.cancelled = TRUE]]
    /\ UNCHANGED <<walks, pausedEvents, exceptRouter>>

\* The goroutine that called Run
RouterRunner == RouterReceive \/ RouterCallbackReturns \/ RouterClosed \/ RouterDeferred

RouterNext ==
    \/ RouterPaused
    \/ RouterRelayRecv
    \/ RouterRelayDone
    \/ RouterRun
    \/ RouterReceive
    \/ RouterCallbackReturns
    \/ \E q \in Paused, blocks \in BOOLEAN : RouterWalk(q, blocks)
    \/ RouterClosed
    \/ RouterDeferred
    \/ RouterStop

\* The goroutines go on running: the one that called Run, the relay, and every
\* walk whose handler has not blocked
RouterFair ==
    /\ WF_vars(RouterRunner)
    /\ WF_vars(RouterRelayRecv)
    /\ WF_vars(RouterRelayDone)
    /\ \A q \in Paused : WF_vars(\E blocks \in BOOLEAN : RouterWalk(q, blocks))

\* ------------------------------------------------------------------ the locks

Lockers == 1 .. MaxLockers

\* Browser.targetsLock, Page.jsCtxLock, Page.helpersLock and the mutexes
\* embedded in Mouse and Keyboard
Mutexes == {"targetsLock", "jsCtxLock", "helpersLock", "Mouse", "Keyboard"}

\* What an operation does with the locks, statement by statement.  A jump goes
\* on statements forward: to the deferred Unlock of the function, or past the
\* rest of it.
\*   lock, unlock : Lock() and Unlock(), the deferred one included
\*   call         : a remote call; on an error err is set and the jump is taken
\*   panics       : a statement that can panic; the jump is taken as on an error
\*   branch       : a test of the state; the jump is taken or not
\*   iferr        : if err != nil, the jump is taken
Lock(l) == [k |-> "lock", l |-> l, on |-> 1]
UnlockOf(l) == [k |-> "unlock", l |-> l, on |-> 1]
RemoteCall(on) == [k |-> "call", l |-> "", on |-> on]
Panics(on) == [k |-> "panics", l |-> "", on |-> on]
Branch(on) == [k |-> "branch", l |-> "", on |-> on]
IfErr(on) == [k |-> "iferr", l |-> "", on |-> on]

\* Browser.PageFromTarget: the cached page, or attach, Emulate and
\* EnableDomain, under targetsLock
PageFromTargetLocks ==
    <<Lock("targetsLock"), Branch(4), RemoteCall(3), RemoteCall(2), RemoteCall(1),
      UnlockOf("targetsLock")>>

\* Page.getJSCtxID of a top-level page
GetJSCtxIDLocks ==
    <<Lock("jsCtxLock"), Branch(4), RemoteCall(3),
      Lock("helpersLock"), UnlockOf("helpersLock"),
      UnlockOf("jsCtxLock")>>

\* Page.getJSCtxID of an iframe
GetJSCtxIDIframeLocks ==
    <<Lock("jsCtxLock"), Branch(6), RemoteCall(5), RemoteCall(4),
      Lock("helpersLock"), UnlockOf("helpersLock"), RemoteCall(1),
      UnlockOf("jsCtxLock")>>

\* Page.unsetJSCtxID
UnsetJSCtxIDLocks == <<Lock("jsCtxLock"), UnlockOf("jsCtxLock")>>

\* Page.getHelper
GetHelperLocks == <<Lock("helpersLock"), UnlockOf("helpersLock")>>

\* Page.setHelper: the assignment panics when the map is not there
SetHelperLocks == <<Lock("helpersLock"), Panics(1), UnlockOf("helpersLock")>>

\* Page.ensureJSHelper for one function: getJSCtxID, getHelper and, on a miss,
\* the call that makes the function and setHelper
EnsureJSHelperLocks ==
    LET miss == <<RemoteCall(Len(SetHelperLocks) + 1)>> \o SetHelperLocks
        rest == GetHelperLocks \o <<Branch(Len(miss) + 1)>> \o miss
    IN  GetJSCtxIDLocks \o <<IfErr(Len(rest) + 1)>> \o rest

\* Page.Evaluate: formatArgs with a helper function, getJSCtxID, the call, and
\* unsetJSCtxID when the context was not found
EvaluateLocks ==
    LET tail == <<RemoteCall(1), Branch(Len(UnsetJSCtxIDLocks) + 1)>> \o UnsetJSCtxIDLocks
        ctx  == GetJSCtxIDLocks \o <<IfErr(Len(tail) + 1)>> \o tail
    IN  EnsureJSHelperLocks \o <<IfErr(Len(ctx) + 1)>> \o ctx

\* Keyboard.getModifiers
GetModifiersLocks == <<Lock("Keyboard"), UnlockOf("Keyboard")>>

\* Mouse.Move with one step: the event is sent with the keyboard's modifiers
\* and, when the browser traces, the mouse tracer is updated with an evaluation
MouseMoveLocks ==
    LET trace == <<Branch(Len(EvaluateLocks) + 1)>> \o EvaluateLocks
    IN  <<Lock("Mouse")>> \o GetModifiersLocks \o <<RemoteCall(Len(trace) + 1)>> \o trace
            \o <<UnlockOf("Mouse")>>

\* Keyboard.Press
KeyboardPressLocks == <<Lock("Keyboard"), RemoteCall(1), UnlockOf("Keyboard")>>

\* The operations, in the order in which goroutines that are alike choose them
Operations ==
    <<PageFromTargetLocks, GetJSCtxIDIframeLocks, EvaluateLocks, MouseMoveLocks,
      KeyboardPressLocks>>

LockInit ==
    /\ lockers = [t \in Lockers |-> [op |-> 0, pc |-> 0, err |-> FALSE]]
    /\ mutexes = [l \in Mutexes |-> 0]

\* A goroutine calls an operation
Begin(t, op) ==
    /\ lockers[t].op = 0
    /\ \A u \in Lockers : u < t => lockers[u].op # 0 /\ lockers[u].op <= op
    /\ lockers' = [lockers EXCEPT ![t] = [op |-> op, pc |-> 1, err |-> FALSE]]
    /\ UNCHANGED <<mutexes, exceptLock>>

\* the statement goroutine t is at
At(t) == Operations[lockers[t].op][lockers[t].pc]

InOperation(t) == lockers[t].op # 0 /\ lockers[t].pc <= Len(Operations[lockers[t].op])

\* (a slip: an error returns at once, past the deferred Unlock)
AfterErrorPast(pc, on, end) == end

\* where a goroutine goes on an error or a panic: to the deferred Unlock of
\* the function it is in
AfterError(pc, on, end) == pc + on

\* sync.Mutex.Lock: blocks while the mutex is held, by the caller too
MutexLock(t) ==
    /\ InOperation(t)
    /\ At(t).k = "lock"
    /\ mutexes[At(t).l] = 0
    /\ mutexes' = [mutexes EXCEPT ![At(t).l] = t]
    /\ lockers' = [lockers EXCEPT ![t].pc = @ + 1]
    /\ UNCHANGED exceptLock

\* sync.Mutex.Unlock
MutexUnlock(t) ==
    /\ InOperation(t)
    /\ At(t).k = "unlock"
    /\ mutexes' = [mutexes EXCEPT ![At(t).l] = 0]
    /\ lockers' = [lockers EXCEPT ![t].pc = @ + 1]
    /\ UNCHANGED exceptLock

\* a remote call returns, with or without an error, or a statement panics or
\* does not
Statement(t, ok) ==
    /\ InOperation(t)
    /\ At(t).k \in {"call", "panics"}
    /\ lockers' = [lockers EXCEPT
                     ![t].pc = IF ok THEN @ + 1
                               ELSE AfterError(@, At(t).on, Len(Operations[lockers[t].op]) + 1),
                     ![t].err = ~ok]
    /\ UNCHANGED <<mutexes, exceptLock>>

\* a test of the state, or of err
Test(t, taken) ==
    /\ InOperation(t)
    /\ At(t).k \in {"branch", "iferr"}
    /\ At(t).k = "iferr" => taken = lockers[t].err
    /\ lockers' = [lockers EXCEPT ![t].pc = IF taken THEN @ + At(t).on ELSE @ + 1]
    /\ UNCHANGED <<mutexes, exceptLock>>

LockNext ==
    \/ \E t \in Lockers, op \in 1 .. Len(Operations) : Begin(t, op)
    \/ \E t \in Lockers : MutexLock(t)
    \/ \E t \in Lockers : MutexUnlock(t)
    \/ \E t \in Lockers, ok \in BOOLEAN : Statement(t, ok)
    \/ \E t \in Lockers, taken \in BOOLEAN : Test(t, taken)

\* ------------------------------------------------------------ RaceContext.Do

\* round: the invocation of the function given to utils.Retry; i: the branch
\* the loop is at; outs: what the conditions of this round gave, in the order
\* they were tried; el: the branch whose element Do returns, 0 for nil; ran:
\* per branch, the invocations of its callback
NotRacing ==
    [pc |-> "build", round |-> 0, i |-> 0, outs |-> <<>>, el |-> 0, err |-> "",
     ran |-> [b \in 1 .. MaxBranches |-> 0]]

\* Page.Race()
RaceInit ==
    /\ branches = <<>>
    /\ race = NotRacing
    /\ raceScope = FALSE

\* RaceContext.Element (or ElementX, ElementR, ElementByJS), followed or not
\* by RaceContext.Handle
RaceElement(handle) ==
    /\ race.pc = "build"
    /\ Len(branches) < MaxBranches
    /\ branches' = Append(branches, [callback |-> handle])
    /\ UNCHANGED <<race, raceScope, exceptRace>>

\* RaceContext.Do: utils.Retry invokes the function at once
RaceDo ==
    /\ race.pc = "build"
    /\ race' = [race EXCEPT !.pc = "round", !.round = 1, !.i = 1]
    /\ UNCHANGED <<branches, raceScope, exceptRace>>

\* (a slip: an error of a condition is passed over like element-not-found)
BranchStopsOnFound(out) == out = "found"

\* the function returns true for a condition without error and for an error
\* that is not ErrElementNotFound
BranchStops(out) == out # "notfound"

\* branch.condition(rc.page.Sleeper(NotFoundSleeper)): one check, which finds
\* the element, does not find it, or fails with another error
Condition(out) ==
    /\ race.pc = "round"
    /\ race.i <= Len(branches)
    /\ LET r == [race EXCEPT !.outs = Append(@, out)] IN
       race' = IF ~BranchStops(out) THEN [r EXCEPT !.i = @ + 1]
               ELSE IF out = "found"
                    THEN IF branches[race.i].callback
                         THEN [r EXCEPT !.el = race.i, !.pc = "callback"]
                         ELSE [r EXCEPT !.el = race.i, !.pc = "done", !.err = "nil"]
                    ELSE [r EXCEPT !.pc = "done", !.err = "err"]
    /\ UNCHANGED <<branches, raceScope, exceptRace>>

\* err = branch.callback(el); return true, err
Callback(ok) ==
    /\ race.pc = "callback"
    /\ race' = [race EXCEPT !.ran[race.el] = @ + 1, !.pc = "done",
                            !.err = IF ok THEN "nil" ELSE "callback"]
    /\ UNCHANGED <<branches, raceScope, exceptRace>>

\* the loop over the branches is over: the function returns (false, nil) and
\* Retry sleeps
RoundOver ==
    /\ race.pc = "round"
    /\ race.i > Len(branches)
    /\ race' = [race EXCEPT !.pc = "sleep"]
    /\ UNCHANGED <<branches, raceScope, exceptRace>>

\* the sleeper of the page has waited for its delay, the context not being
\* cancelled: Retry invokes the function again
RaceSleepElapsed ==
    /\ race.pc = "sleep"
    /\ ~raceScope
    /\ race' = [race EXCEPT !.pc = "round", !.i = 1, !.outs = <<>>,
                            !.round = IF @ < MaxRounds THEN @ + 1 ELSE @]
    /\ UNCHANGED <<branches, raceScope, exceptRace>>

\* the context ended before the delay: Retry returns the context's error
RaceSleepCancelled ==
    /\ race.pc = "sleep"
    /\ raceScope
    /\ race' = [race EXCEPT !.pc = "done", !.err = "cancelled"]
    /\ UNCHANGED <<branches, raceScope, exceptRace>>

\* the context of the page is cancelled while Do is running
RaceCancel ==
    /\ race.pc \notin {"build", "done"}
    /\ ~raceScope
    /\ raceScope' = TRUE
    /\ UNCHANGED <<branches, race, exceptRace>>

\* The goroutine that called Do
Racer ==
    \/ \E out \in {"found", "notfound", "err"} : Condition(out)
    \/ \E ok \in BOOLEAN : Callback(ok)
    \/ RoundOver
    \/ RaceSleepElapsed
    \/ RaceSleepCancelled

RaceNext ==
    \/ \E handle \in BOOLEAN : RaceElement(handle)
    \/ RaceDo
    \/ Racer
    \/ RaceCancel

RaceFair == WF_vars(Racer)

\* ------------------------------------------------------------ specifications

\* Browser.New: the cache is empty
StatesInit == states = <<>>

Init ==
    /\ StatesInit /\ DomainInit /\ HijackInit /\ AttachInit /\ CtxInit /\ CacheInit
    /\ EventsInit /\ PageInit /\ PatInit /\ UntilInit /\ WaitInit /\ AuthInit /\ PoolInit /\ KeyInit /\ ChainInit /\ RouterInit /\ LockInit /\ RaceInit

\* The hijack router alone
SpecHijack == Init /\ [][HijackNext]_vars

\* The hijack router with handlers that let the walk go on
SpecWalk == Init /\ [][WalkNext]_vars

\* Callers of EnableDomain and DisableDomain alone
SpecDomain == Init /\ [][DomainNext]_vars

\* Callers of PageFromTarget alone
SpecAttach == Init /\ [][AttachNext]_vars

\* Callers of getJSCtxID, unsetJSCtxID and ensureJSHelper alone
SpecCtx == Init /\ [][CtxNext]_vars

\* Callers of Page.Evaluate alone
SpecEval == Init /\ [][EvalNext]_vars

\* One caller of Browser.Call and Browser.LoadState
SpecCache == Init /\ [][CacheNext]_vars

\* A handler added with a pattern and asked about a URL
SpecPattern == Init /\ [][PatNext]_vars

\* Callers of Page.ElementByJS, each in its utils.Retry
SpecUntil == Init /\ [][UntilNext]_vars /\ UntilFair

\* The caller of eachEvent, the transport and the domain cache
SpecWait == Init /\ [][WaitNext]_vars /\ WaitFair

\* The caller of HandleAuth, the transport and the domain cache
SpecAuth == Init /\ [][AuthNext]_vars

\* Callers of Browser.Page
SpecPage == Init /\ [][PageNext]_vars

\* The event bus with the streams of Browser.Event
SpecEvents == Init /\ [][EventsNext]_vars /\ EventsFair

\* One caller of Page.Evaluate, which calls again when it has returned; the
\* goroutine keeps running and the remote answers every call
SpecRetry == Init /\ [][RetryNext]_vars /\ WF_vars(RetryNext)

\* Callers of PagePool.Get and PagePool.Put
SpecPool == Init /\ [][PoolNext]_vars

\* One KeyActions recorded and done on a keyboard
SpecKeys == Init /\ [][KeyNext]_vars

\* Clones made by Context, Timeout, CancelTimeout and WithCancel
SpecChain == Init /\ [][ChainNext]_vars

\* The hijack router with handlers that set several directives
SpecDirective == Init /\ [][DirectiveNext]_vars

\* A hijack router that is run and stopped while requests are paused
SpecRouter == Init /\ [][RouterNext]_vars /\ RouterFair

\* Goroutines that run the operations taking the five locks
SpecLocks == Init /\ [][LockNext]_vars

\* One RaceContext that is built and done
SpecRace == Init /\ [][RaceNext]_vars /\ RaceFair

\* ------------------------------------------------------------------- claims

\* The walk of request q is over and had exactly the two handlers first and
\* second to go through, both matching the URL
TwoMatchingHandlers(q, first, second) ==
    /\ hj[q].state = "done"
    /\ Len(hj[q].snapshot) = 2
    /\ \A n \in 1 .. 2 : MatchString(hj[q].snapshot[n].regexp, hj[q].url)
    /\ hj[q].snapshot[1].handler = first
    /\ hj[q].snapshot[2].handler = second

\* C1: when two handlers match a paused request, the first sets Skip and the
\* second fulfils with body "ok" without touching Skip, the remote receives
\* exactly one resolution call for the request: the fulfilment (200, "ok").
C1_SkipThenFulfill ==
    \A q \in Requests :
        TwoMatchingHandlers(q, "skip", "fulfill")
            => fetchCalls[q] = <<[method |-> "fulfillRequest", body |-> "ok", code |-> 200]>>

\* C2: the router sends at most one resolution call (continue, fulfill or fail)
\* for a request id.
C2_AtMostOneResolution ==
    \A q \in Requests : Len(fetchCalls[q]) <= 1

\* C3: a walk that ends without any resolution call has reported an error
\* through Hijack.OnError.
C3_UnresolvedIsReported ==
    \A q \in Requests :
        hj[q].state = "done" /\ fetchCalls[q] = <<>> => onError[q] > 0

\* Callers a and b are the only ones that have started, and both called
\* EnableDomain for the same session and method
OnlyEnablers(a, b) ==
    /\ a # b
    /\ dth[a].op = "enable" /\ dth[b].op = "enable"
    /\ dth[a].sessionID = dth[b].sessionID
    /\ dth[a].methodName = dth[b].methodName
    /\ \A u \in DThreads \ {a, b} : dth[u].pc = "idle"

\* Sequential nesting: a found the domain disabled, and b called EnableDomain
\* after a's EnableDomain had returned and before a's restore ran
Nested(a, b) ==
    /\ OnlyEnablers(a, b)
    /\ ~dth[a].enabled /\ dth[a].outer = {}
    /\ dth[b].outer = {a}

\* What C6 says of the nested callers a (outer) and b (inner)
NestingHolds(a, b) ==
    \* the enable call is sent once, by a
    /\ dth[a].mainRes # "none"
    /\ dth[b].pc # "call" /\ dth[b].mainRes = "none"
    \* b's restore sends nothing and leaves the domain enabled in the cache
    /\ dth[b].pc = "restored" => dth[b].restoreRes = "none"
    /\ dth[b].pc = "restored" /\ dth[a].pc = "returned"
          => Has(states, key(dth[a].sessionID, dth[a].methodName))
    \* the disable call is sent once, by a's restore
    /\ dth[a].pc = "restored" => dth[a].restoreRes # "none"

NoError(a, b) ==
    \A u \in {a, b} : dth[u].mainRes # "err" /\ dth[u].restoreRes # "err"

\* C7: for two concurrent EnableDomain calls on a domain that starts disabled,
\* in every interleaving exactly one enable call is sent, at most one of the two
\* restores sends a disable, and the domain is not disabled in the browser while
\* a caller whose EnableDomain has returned has not run its restore.
C7_ConcurrentEnable ==
    \A a, b \in DThreads :
        OnlyEnablers(a, b) /\ NoError(a, b) /\ dth[a].outer = {} /\ dth[b].outer = {}
        =>  /\ dth[a].pc \in {"call", "returned"} /\ dth[b].pc \in {"call", "returned"}
                => ~(dth[a].mainRes = "ok" /\ dth[b].mainRes = "ok")
            /\ dth[a].held = {b} => ~(dth[a].restoreRes = "ok" /\ dth[b].restoreRes = "ok")
            /\ dth[a].pc = "returned" /\ pend[a] = NoPend
                => <<dth[a].sessionID, dth[a].methodName[1]>> \in remoteEnabled

\* C8: the restore of DisableDomain re-enables the domain with the parameters
\* the cache held for the enable method when DisableDomain was called.
C8_RestoreUsesCachedParams ==
    \A t \in DThreads :
        dth[t].op = "disable" /\ dth[t].pc = "restored" /\ dth[t].restoreRes # "none"
            => dth[t].restoreReq = dth[t].cached

\* The callers that asked for target g
CallersOf(g) == {t \in AThreads : ath[t].pc # "idle" /\ ath[t].target = g}

\* What C4 says of target g
OneAttach(g) ==
    /\ attachCalls[g] <= 1
    /\ \A t \in CallersOf(g) :
          ath[t].pc = "done" =>
              /\ attachCalls[g] = 1
              /\ ~ath[t].err /\ ath[t].page # 0
              /\ ath[t].page = loadCachedPage(states, g)
              /\ \A u \in CallersOf(g) : ath[u].pc = "done" => ath[u].page = ath[t].page

\* C4 as stated: however many callers ask PageFromTarget for the same target
\* id, exactly one attach call is sent for it and every caller gets the same
\* Page, also a caller that comes when the target is already cached.
C4_OneAttachOriginal == \A g \in Targets : OneAttach(g)

\* C4 as amended: the same, as long as no PageFromTarget call for that target
\* has failed (the attach call or the priming with the default device was
\* answered with an error).
C4_OneAttach ==
    \A g \in Targets : (\A t \in CallersOf(g) : ~ath[t].err) => OneAttach(g)

\* Two callers asked for the same target, the second while the first held the
\* lock, and both got the one page
C4_Witness ==
    \E t, u \in AThreads :
        /\ t # u /\ ath[t].target = ath[u].target
        /\ ath[t].pc = "done" /\ ath[u].pc = "done"
        /\ ath[u].contended
        /\ ath[t].page # 0 /\ ath[t].page = ath[u].page
        /\ attachCalls[ath[t].target] = 1

\* C5: on a page whose context has not been invalidated and whose remote has
\* answered every resolution, however many callers ask getJSCtxID, at most one
\* resolution is asked of the remote, and every caller that has got an id has
\* got the one published id of that single resolution.
C5_OneResolution ==
    (unsets = 0 /\ ~failed) =>
        /\ roundTrips <= 1
        /\ \A t \in EThreads :
              eth[t].ctx # 0 => (roundTrips = 1 /\ eth[t].ctx = jsCtxID)

\* Two callers have got the same id out of one resolution, one of them having
\* called while the other held the lock
C5_Witness ==
    /\ unsets = 0 /\ ~failed /\ roundTrips = 1
    /\ \E t, u \in EThreads :
          /\ t # u /\ eth[u].contended
          /\ eth[t].ctx # 0 /\ eth[t].ctx = eth[u].ctx

\* C9: the helper cache never returns a function id it was given before an
\* invalidation that a resolution has since followed.
C9_NoStaleHelper == \A t \in EThreads : ~eth[t].stale

\* C10: once getJSCtxID has returned a newly published id (top-level page or
\* iframe), the helper cache holds no function id of a replaced generation:
\* what was stored before the invalidation is no longer there under another
\* context id.
C10_OldEntriesRemoved ==
    (jsCtxLock = 0 /\ jsCtxID # 0) =>
        \A c \in DOMAIN helpers.m : \A name \in DOMAIN helpers.m[c] :
            helpers.m[c][name].at < resolvedAt => c = jsCtxID

\* C14 as stated: no caller holds the execution-context lock and the
\* helper-cache lock at the same time.
C14_AtMostOneLock ==
    \A t \in EThreads : ~(jsCtxLock = t /\ helpersLock = t)

\* C14 as amended: the helper-cache lock is held together with another lock
\* only by a caller inside getJSCtxID, which took the execution-context lock
\* first and is resetting the helper cache; no caller that holds the
\* helper-cache lock waits for the execution-context lock.
C14_LockOrder ==
    \A t \in EThreads :
        helpersLock = t => jsCtxLock = t /\ eth[t].pc \in {"clear", "delete"}

\* A caller inside getJSCtxID holds both locks
C14_Witness ==
    \E t \in EThreads : jsCtxLock = t /\ helpersLock = t /\ eth[t].pc = "clear"

\* C15: setHelper always finds the helper map and the list of its context id:
\* no caller panics on an assignment to an entry of a nil map.
C15_SetHelperFindsMap == \A t \in EThreads : eth[t].pc # "panic"

\* C11: the request of an evaluation that passes a helper function carries,
\* as its ObjectID, the context id under which the helper was looked up: the
\* helper id and the context handle are of one generation.
C11_OneGeneration ==
    \A t \in EThreads :
        eth[t].pc = "call" /\ eth[t].jsArg /\ ~eth[t].thisObj
            => eth[t].objectID = eth[t].helperCtx

\* The rounds of a call of Evaluate and what it returned
C12_Rounds ==
    LET d == eth[Caller] IN
    /\ d.thisObj => d.attempt <= 1 /\ ~d.didUnset
    /\ d.res = "ErrObjectNotFound" => d.thisObj /\ d.lastErr = "ErrCtxNotFound"
    /\ d.res = "err" => d.lastErr = "other"
    /\ d.res = "ok" => d.pc = "idle"
    /\ (d.attempt > 1 /\ d.pc # "idle") => d.lastErr = "ErrCtxNotFound" /\ d.didUnset
    /\ (d.attempt > 1 /\ d.ctx # 0) => d.ctx # d.lastFailed
    /\ (d.attempt > 1 /\ d.objectID # 0) => d.objectID # d.lastFailed

\* What Evaluate does with the error of a round
C12_OnError ==
    LET d == eth[Caller]
        e == eth'[Caller]
    IN  d.pc = "failed" =>
           \/ e.pc = "idle" /\ e.res \in {"err", "ErrObjectNotFound"}
                /\ e.attempt = d.attempt /\ jsCtxID' = jsCtxID
           \/ e.pc = "lock" /\ ~d.thisObj /\ e.lastErr = "ErrCtxNotFound"
                /\ jsCtxID' = 0 /\ e.ctx = 0

\* C12: a context-not-found error of an evaluation with ThisObj ends Evaluate
\* with ErrObjectNotFound in its first round and leaves the cached context id
\* as it is; without ThisObj the cached id is unset before the next round, which
\* begins with no id and works with a newly resolved one; any other error and
\* a result end Evaluate without another round.
C12_ErrorHandling == []C12_Rounds /\ [][C12_OnError]_vars

\* A further round works with a context id resolved after the one that failed
C12_Witness ==
    LET d == eth[Caller] IN
    /\ ~d.thisObj /\ d.attempt > 1 /\ d.didUnset
    /\ d.lastFailed # 0 /\ d.objectID # 0 /\ d.pc = "call"

\* C13: a call of Evaluate returns
C13_Terminates == (eth[Caller].pc # "idle") ~> (eth[Caller].pc = "idle")

\* The other method of the pair a method belongs to
Counterpart(m) ==
    IF m[2] = "enable" THEN <<m[1], "disable">>
    ELSE IF m[2] = "disable" THEN <<m[1], "enable">>
    ELSE IF m = SetDeviceMetricsM THEN ClearDeviceMetricsM
    ELSE IF m = ClearDeviceMetricsM THEN SetDeviceMetricsM
    ELSE IF m = SetGeolocationM THEN ClearGeolocationM
    ELSE SetGeolocationM

\* On session s method a was called with success after the latest successful
\* call of method b
Later(s, a, b) ==
    /\ Has(last, key(s, a)) /\ Has(last, key(s, b))
    /\ last[key(s, a)].at > last[key(s, b)].at

\* C16: after any calls made one after the other, the cache holds the entry of
\* D.enable of a session exactly when D.enable was called there with success
\* and no successful D.disable of that session followed; and an entry that a
\* successful call stored is missing only when the other method of its pair was
\* called with success on the same session afterwards (a disable removes
\* nothing else).
C16_EnableEntry ==
    \A s \in Sessions : \A m \in CacheMethods :
        /\ m[2] = "enable" =>
              (Has(states, key(s, m)) <=>
                  (Has(last, key(s, m)) /\ ~Later(s, Counterpart(m), m)))
        /\ (Has(last, key(s, m)) /\ ~Has(states, key(s, m))) => Later(s, Counterpart(m), m)
        /\ Has(states, key(s, m)) => Has(last, key(s, m))

\* Fetch.disable has removed the entry of Fetch.enable of its session and left
\* that of the other session
C16_Witness ==
    \E s, u \in Sessions :
        /\ s # u
        /\ Later(s, FetchDisableM, FetchEnableM)
        /\ ~Has(states, key(s, FetchEnableM))
        /\ Has(states, key(u, FetchEnableM))

\* C17: the cache never holds the entries of both methods of an Emulation
\* pair (set / clear device metrics override, set / clear geolocation
\* override) of one session.
C17_NeverBoth ==
    \A s \in Sessions : \A m \in {SetDeviceMetricsM, SetGeolocationM} :
        ~(Has(states, key(s, m)) /\ Has(states, key(s, Counterpart(m))))

\* What LoadState has done
C18_Loaded ==
    loaded # NoLoad =>
        LET k == key(loaded.sessionID, loaded.methodName) IN
        /\ loaded.returned
        /\ loaded.has <=> Has(states, k)
        /\ loaded.has => Has(last, k) /\ loaded.method = last[k].params
        /\ ~loaded.has => loaded.method = Template

\* A call that recorded no success has left the cache as it was
C18_FailedCall == (writes' # writes /\ last' = last) => states' = states

\* C18: LoadState returns true exactly when the cache holds the entry of the
\* template's method for the session, and has then copied into the template the
\* params of the latest successful call of that method there; it returns false
\* and leaves the template alone otherwise; a call answered with an error
\* leaves the cache as it was.
C18_LoadState == []C18_Loaded /\ [][C18_FailedCall]_vars

\* The events published so far, in publish order
AllEvents == [i \in 1 .. published |-> i]

\* What the relay of d has in hand
InHand(d) == IF d.e = 0 THEN <<>> ELSE <<d.e>>

\* The consumer of stream s has got every event there will be
GotAll(s) == published = MaxEvents /\ subs[s].received = AllEvents

\* The consumer of stream s has stopped reading or its scope is cancelled
GaveUp(s) == subs[s].stopped \/ subs[s].cancelled

\* Every stream has handed to its consumer the first of the events published,
\* in publish order and without a gap; while its scope is not
\* cancelled the following ones are in the relay's hand and with the bus, none
\* lost; and the bus can publish whatever the streams are at
C19_InOrder ==
    /\ \A s \in Subscribers :
          LET d == subs[s] IN
          /\ Len(d.received) <= Len(AllEvents)
          /\ d.received = SubSeq(AllEvents, 1, Len(d.received))
          /\ (d.relay # "none" /\ ~d.cancelled) =>
                d.received \o InHand(d) \o d.buf = AllEvents
    /\ published < MaxEvents => ENABLED Publish

\* C19: each stream of Browser.Event hands its consumer all events published,
\* in publish order, however slowly any consumer reads:
\* a consumer that goes on reading gets every event, whether or not the other
\* consumers read, and publishing never waits.
C19_FanOut ==
    /\ []C19_InOrder
    /\ \A s \in Subscribers : (subs[s].relay # "none") ~> (GaveUp(s) \/ GotAll(s))

\* One consumer has got all events while another has not taken the first one,
\* which its relay is holding, the next ones waiting with the bus
C19_Witness ==
    \E s, t \in Subscribers :
        /\ s # t
        /\ GotAll(s) /\ Len(subs[s].received) = MaxEvents
        /\ subs[t].relay = "send" /\ subs[t].received = <<>> /\ subs[t].buf # <<>>
        /\ ~subs[t].cancelled

\* Only a stream whose scope is cancelled is closed
C20_OnlyThat == \A s \in Subscribers : subs[s].relay = "done" => subs[s].cancelled

\* The scope of a stream other than t is cancelled
OtherCancelled(t) == \E s \in Subscribers \ {t} : subs[s].cancelled

\* C20: when the scope of a stream is cancelled, its relay returns and the
\* stream is closed, also when the relay is waiting to hand an event to a
\* consumer that has stopped; no other stream is closed, and every other
\* consumer that goes on reading gets every event.
C20_CancelEndsOne ==
    /\ []C20_OnlyThat
    /\ \A s \in Subscribers :
          /\ subs[s].cancelled ~> (subs[s].relay = "done")
          /\ (OtherCancelled(s) /\ subs[s].relay # "none") ~> (GaveUp(s) \/ GotAll(s))

\* The relay of a cancelled stream has returned with an event in its hand that
\* its consumer, having stopped, never took; the other consumer has got all
\* events
C20_Witness ==
    \E s, t \in Subscribers :
        /\ s # t
        /\ subs[s].relay = "done" /\ subs[s].e # 0 /\ subs[s].stopped
        /\ ~subs[t].cancelled /\ GotAll(t)
        /\ Len(subs[t].received) = MaxEvents

\* C29: when PageFromTarget is about to return an error, and afterwards until
\* another call has attached to the target, the cache holds no page for the
\* target.
C29_FailureCachesNothing ==
    \A t \in AThreads :
        (ath[t].err /\ ath[t].pc \in {"return", "done"}) =>
            \/ ~Has(states, targetKey(ath[t].target))
            \/ \E u \in AThreads \ {t} :
                  /\ ath[u].target = ath[t].target /\ ~ath[u].err
                  /\ states[targetKey(ath[t].target)] = ath[u].page

\* After a call of PageFromTarget for a target has failed, a later call
\* for the same target has attached again
C29_Witness ==
    \E t, u \in AThreads :
        /\ t # u /\ ath[t].target = ath[u].target
        /\ ath[t].err /\ ath[t].pc = "done" /\ attachCalls[ath[t].target] = 2
        /\ ~ath[u].err /\ ath[u].page # 0 /\ ath[u].pc = "done"

\* C30: when Browser.Page has returned, one Target.closeTarget call was sent
\* for the target it created if it returns an error, and none if it returns the
\* page; no target is closed before its creator is about to return an error.
C30_ClosesOnError ==
    /\ \A t \in AThreads :
          (bp[t].pc = "done" /\ bp[t].target # 0) =>
              closeCalls[bp[t].target] = IF bp[t].err THEN 1 ELSE 0
    /\ \A g \in Targets :
          closeCalls[g] > 0 =>
              \E t \in AThreads : bp[t].target = g /\ bp[t].err /\ bp[t].pc = "done"

\* Browser.Page has closed the target whose page it had attached and could not
\* navigate, and has returned the page of another target
C30_Witness ==
    \E t, u \in AThreads :
        /\ bp[t].pc = "done" /\ bp[t].err /\ bp[t].page # 0 /\ closeCalls[bp[t].target] = 1
        /\ bp[u].pc = "done" /\ ~bp[u].err /\ bp[u].page # 0 /\ closeCalls[bp[u].target] = 0

\* What C27 says a pattern matches: '*' any sequence of characters, '?' exactly
\* one character, every other character itself, over the whole string
RECURSIVE C27_Wildcard(_, _)
C27_Wildcard(p, u) ==
    IF p = <<>> THEN u = <<>>
    ELSE IF p[1] = "*"
         THEN C27_Wildcard(Tail(p), u) \/ (u # <<>> /\ C27_Wildcard(p, Tail(u)))
         ELSE /\ u # <<>>
              /\ p[1] = "?" \/ p[1] = u[1]
              /\ C27_Wildcard(Tail(p), Tail(u))

\* C27: every pattern compiles and its regexp matches a URL exactly if the
\* pattern, with '*' for any sequence, '?' for one character and every other
\* character for itself, matches the whole URL.
C27_WildcardsOnly ==
    /\ pm.pc # "panic"
    /\ pm.pc = "matched" => (pm.matched <=> C27_Wildcard(pm.pattern, pm.url))

RECURSIVE C21_AwaitedIn(_, _)
C21_AwaitedIn(from, to) ==
    IF from > to THEN <<>>
    ELSE (IF Awaited(wt, emitted[from]) THEN <<from>> ELSE <<>>)
         \o C21_AwaitedIn(from + 1, to)

\* An event for the callback was published after eachEvent returned and has
\* not been taken, the wait function not having returned and its scope not
\* being cancelled
C21_Pending ==
    /\ wt.pc \in {"ready", "range"} /\ ~wt.scope
    /\ C21_AwaitedIn(wt.subAt + wt.got + 1, Len(emitted)) # <<>>

\* C21: the callback is called with exactly the awaited events among the
\* messages taken, none skipped, in publish order; until the wait function
\* returns or its scope is cancelled every event published after eachEvent
\* returned is taken, in the hand of the relay or held by the bus, whether or
\* not the wait function has been invoked yet; and an awaited event that was
\* published is taken in the end.
C21_NeverMisses ==
    /\ [](/\ wt.seen = C21_AwaitedIn(wt.subAt + 1, wt.subAt + wt.got)
          /\ (wt.pc \in {"ready", "range"} /\ ~wt.scope) =>
                wt.got + Len(InHand(wt)) + Len(wt.buf) = Len(emitted) - wt.subAt
          /\ (wt.kind = "WaitEvent" /\ wt.pc = "returned" /\ ~wt.scope) =>
                wt.seen = <<Head(C21_AwaitedIn(wt.subAt + 1, Len(emitted)))>>)
    /\ C21_Pending ~> ~C21_Pending

\* The wait function of WaitEvent, invoked after two events had been published,
\* has returned with the second one, the first one not being for it
C21_Witness ==
    /\ wt.kind = "WaitEvent" /\ wt.pc = "returned" /\ ~wt.scope
    /\ wt.subAt = 0 /\ wt.seen = <<2>> /\ wt.got = 2

\* C22: the first invocation of a wait function never panics; an invocation
\* after it has returned panics, takes no message and calls no callback.
C22_UsableOnce ==
    /\ [](/\ wt.calls = 1 => wt.pc # "panic"
          /\ wt.calls = 2 => wt.pc = "panic" /\ wt.messages = "nil")
    /\ [][(wt.calls = 1 /\ wt'.calls = 2) =>
             /\ wt.pc = "returned" /\ wt'.pc = "panic"
             /\ wt'.got = wt.got /\ wt'.seen = wt.seen /\ wt'.relay = wt.relay]_vars

\* A wait function that had returned with an event was invoked again and has
\* panicked, more events having been published
C22_Witness ==
    /\ wt.calls = 2 /\ wt.pc = "panic" /\ wt.seen # <<>>
    /\ Len(emitted) > wt.subAt + wt.got

\* C23: once the wait function has returned, the domain is enabled in the cache
\* exactly if it was when eachEvent was called.
C23_Restored ==
    wt.pc \in {"returned", "panic"} =>
        (Has(states, key(wt.sessionID, PageEnableM)) <=> wt.enabled)

\* The calls of the function HandleAuth returned are in order: a continue call
\* carries a request-paused event that was received, a credentials call carries
\* an auth-required event that was received and follows the continue call, and
\* no call is made twice
C24_InOrder ==
    /\ Len(authCalls) <= 2
    /\ \A n \in 1 .. Len(authCalls) :
          LET c == authCalls[n] IN
          IF n = 1
          THEN /\ c.method = "continueRequest"
               /\ c.id # 0 /\ authEmitted[c.id] = RequestPausedE
          ELSE /\ c.method = "continueWithAuth"
               /\ c.id # 0 /\ authEmitted[c.id] = AuthRequiredE

\* C24: the calls of the function HandleAuth returned are in order, each after
\* its event was received, and when the function returns without error both
\* calls were made, once each.
C24_AnswersInOrder ==
    /\ C24_InOrder
    /\ (ha.pc \in {"deferred", "restore", "returned"} /\ ~ha.err) => Len(authCalls) = 2

\* C25: when the function HandleAuth returned has returned, the Fetch domain
\* is enabled in the cache exactly if it was before HandleAuth was called, with
\* the parameters it then had, and both streams are cancelled.
C25_PriorStateRestored ==
    ha.pc = "returned" =>
        /\ Has(states, FetchKey) <=> ha.enabled
        /\ ha.enabled => states[FetchKey] = ha.params
        /\ \A which \in AuthWaits : waits[which].cancelled

\* C31: a pool made with limit L has at most L pages checked out, a Get is
\* served only while fewer than L pages are checked out, and the pages checked
\* out plus the items in the pool are L in every reachable state.
C31_Conserved ==
    /\ CheckedOut <= PoolLimit
    /\ CheckedOut + Len(pp) = PoolLimit

C31_GetBlocks ==
    \A g \in Getters :
        (getters[g].pc = "idle" /\ getters'[g].pc # "idle") =>
            /\ CheckedOut < PoolLimit
            /\ CheckedOut' = CheckedOut + 1

C31_LimitsConcurrency == []C31_Conserved /\ [][C31_GetBlocks]_vars

\* the limit is reached with a page in every hand, one of them taken from the
\* pool as it was put back, while other callers are left to wait
C31_Witness ==
    /\ CheckedOut = PoolLimit
    /\ Len(pp) = 0
    /\ \A g \in Getters : getters[g].pc # "idle" => getters[g].pc = "got" /\ getters[g].p > 0
    /\ created = PoolLimit
    /\ \E g \in Getters : getters[g].p = 1 /\ g > PoolLimit
    /\ \E g \in Getters : getters[g].pc = "idle"

\* the keys the recorded actions name
C32_Named == {ka.Actions[n].Key : n \in 1 .. Len(ka.Actions)}

\* the releases balance appended to the recorded actions
C32_Appended == SubSeq(ka.balanced, Len(ka.Actions) + 1, Len(ka.balanced))

\* C32: when Do returns without error no key named by the recorded actions is
\* left in the keyboard's pressed set, every key whose last recorded action is
\* a press got exactly one appended release and no other key got one, and the
\* keys the actions do not name are pressed exactly when they were before.
C32_ReleasedAtEnd ==
    /\ ka.pc # "record" =>
        /\ SubSeq(ka.balanced, 1, Len(ka.Actions)) = ka.Actions
        /\ \A n \in 1 .. Len(C32_Appended) : C32_Appended[n].Type = KeyActionRelease
        /\ \A k \in Keys :
            Cardinality({n \in 1 .. Len(C32_Appended) : C32_Appended[n].Key = k})
                = IF \E n \in 1 .. Len(ka.Actions) :
                        /\ ka.Actions[n] = [Type |-> KeyActionPress, Key |-> k]
                        /\ \A m \in n + 1 .. Len(ka.Actions) : ka.Actions[m].Key # k
                  THEN 1 ELSE 0
    /\ ka.pc = "done" =>
        /\ pressed \cap C32_Named = {}
        /\ pressed \ C32_Named = ka.before \ C32_Named

\* Do has returned without error for a full list of actions that leaves two
\* keys pressed, on a keyboard that had a key down when Do was called
C32_Witness ==
    /\ ka.pc = "done"
    /\ Len(ka.Actions) = MaxKeyActions
    /\ Len(C32_Appended) = 2
    /\ ka.before # {}

\* the contexts that are c or derive from c
RECURSIVE C33_Under(_, _)
C33_Under(d, c) == d = c \/ (d # 0 /\ C33_Under(ctxs[d].parent, c))

\* for every clone made by CancelTimeout from a clone that Timeout made from x:
\* its scope is x's scope, and everything under the timeout scope is done
C33_Undone ==
    \A o \in Clones :
        (clones[o].op = "CancelTimeout" /\ clones[clones[o].from].op = "Timeout") =>
            LET t == clones[clones[o].from]
            IN  /\ clones[o].ctx = clones[t.from].ctx
                /\ \A d \in 1 .. Len(ctxs) : C33_Under(d, t.ctx) => IsDone(d)

\* a step makes at most one clone, keeps every object there is, the receiver
\* included, and a CancelTimeout on a clone made by Timeout cancels the
\* context of that Timeout and no other
C33_CloneStep ==
    /\ \A o \in Clones : clones'[o] = clones[o]
    /\ Len(ctxs') >= Len(ctxs)
    /\ (Len(clones') = Len(clones) + 1 /\ clones'[Len(clones')].op # "CancelTimeout") =>
            \A c \in 1 .. Len(ctxs) : ctxs'[c] = ctxs[c]
    /\ (Len(clones') = Len(clones) + 1 /\ clones'[Len(clones')].op = "CancelTimeout"
            /\ clones[clones'[Len(clones')].from].op = "Timeout") =>
            \A c \in 1 .. Len(ctxs) :
                ctxs'[c] # ctxs[c] => c + 1 = clones[clones'[Len(clones')].from].ctx

\* C33: Timeout, WithCancel and Context return a new object and leave the
\* receiver's scope as it was; x.Timeout(d).CancelTimeout() cancels the timeout
\* scope, so that everything under it is done, and returns a clone whose scope
\* is x's scope; with nested timeouts it undoes the innermost one only.
C33_ChainedClones == []C33_Undone /\ [][C33_CloneStep]_vars

\* nested timeouts: CancelTimeout on x.Timeout(a).Timeout(b) gave a clone with
\* the scope of x.Timeout(a), which is not done
C33_Witness ==
    \E o \in Clones :
        /\ clones[o].op = "CancelTimeout"
        /\ clones[clones[o].from].op = "Timeout"
        /\ clones[clones[clones[o].from].from].op = "Timeout"
        /\ clones[o].ctx = clones[clones[clones[o].from].from].ctx
        /\ ~IsDone(clones[o].ctx)
        /\ IsDone(clones[clones[o].from].ctx)

\* C34: when Browser.Page has failed in Navigate and closed the target it
\* created, the session cache holds no Page for that target id once Browser.Page
\* has returned.
C34_NoSessionForClosedTarget ==
    \A t \in AThreads :
        (bp[t].pc = "done" /\ bp[t].err /\ bp[t].page # 0 /\ closeCalls[bp[t].target] > 0) =>
            loadCachedPage(states, bp[t].target) = 0

\* the two lists of the router have the same length and the same URL patterns
\* in the same order
C35_SamePatterns ==
    /\ Len(enablePatterns) = Len(handlers)
    /\ \A n \in 1 .. Len(handlers) : enablePatterns[n].URLPattern = handlers[n].pattern

\* a Remove leaves the registration of every handler it keeps as it was, the
\* resource type included
C35_RemoveKeeps ==
    removes' # removes =>
        \A n \in 1 .. Len(enablePatterns') :
            \E m \in 1 .. Len(enablePatterns) :
                /\ enablePatterns'[n] = enablePatterns[m]
                /\ handlers'[n] = handlers[m]

\* C35: after any sequence of Add and Remove the enabled pattern list and the
\* handler list have the same length and the same URL patterns in the same
\* order, and Remove(p) leaves the registration of every remaining handler,
\* its resource-type filter included, unchanged.
C35_ListsAligned == []C35_SamePatterns /\ [][C35_RemoveKeeps]_vars

\* the walk of request q has invoked a handler in this step
C36_Invoked(q) == invoked'[q] # invoked[q]

\* the walk of request q has sent exactly this call in this step
C36_Sent(q, call) == fetchCalls'[q] = Append(fetchCalls[q], call)

\* C36: after a handler invocation, if the continue directive is set the
\* continue call is sent and the walk ends, whatever Skip and the fail reason
\* are; otherwise if Skip is set nothing is sent and the walk moves on to the
\* next handler; otherwise if a fail reason is set the fail call is sent, no
\* fulfill, and the walk ends; otherwise the fulfill payload is sent, with
\* status 200.
C36_Priority ==
    \A q \in Requests :
        C36_Invoked(q) =>
            LET ctx == hj'[q] IN
            IF ctx.continueRequest
            THEN /\ C36_Sent(q, [method |-> "continueRequest", body |-> "", code |-> 0])
                 /\ ctx.state = "done"
            ELSE IF ctx.Skip
            THEN /\ fetchCalls'[q] = fetchCalls[q]
                 /\ ctx.state = "walking" /\ ctx.i = hj[q].i + 1
            ELSE IF ctx.failReason # ""
            THEN /\ C36_Sent(q, [method |-> "failRequest", body |-> "", code |-> 0])
                 /\ ctx.state = "done"
            ELSE C36_Sent(q, [method |-> "fulfillRequest", body |-> ctx.body, code |-> 200])

C36_FixedPriority == [][C36_Priority]_vars

\* a handler that called ContinueRequest and set Skip has run as the second
\* handler of a walk: the continue call went out and the walk is over
C36_Witness ==
    \E q \in Requests :
        /\ hj[q].state = "done"
        /\ Len(invoked[q]) = 2
        /\ hj[q].snapshot[2].handler = "continue+skip"
        /\ hj[q].Skip /\ hj[q].continueRequest
        /\ fetchCalls[q][Len(fetchCalls[q])].method = "continueRequest"

\* a walk is started only by a Run that is ranging over the messages: none
\* before Run is called and none after it has returned
C37_WalkStarts ==
    /\ \A q \in Paused :
          (walks[q] = "none" /\ walks'[q] # "none") => router.run = "ranging"
    /\ router.run = "returned" =>
          /\ router'.run = "returned"
          /\ \A q \in Paused : walks[q] = "none" => walks'[q] = "none"

\* C37: once Stop has cancelled the router's scope, a Run that is running or
\* is started later eventually returns; no walk is started after Run has
\* returned; and a walk whose handler does not block comes to its end whatever
\* the handlers of other requests do.
C37_RunTerminates ==
    /\ (router.stream.cancelled /\ router.run # "idle") ~> (router.run = "returned")
    /\ [][C37_WalkStarts]_vars
    /\ \A q \in Paused : (walks[q] = "handler") ~> (walks[q] \in {"blocked", "done"})

\* Run has returned after Stop while the handler of the first request is still
\* blocked, the walk of a later request having come to its end, and an event
\* that was not delivered before Run returned has started no walk
C37_Witness ==
    /\ router.run = "returned"
    /\ router.stream.cancelled
    /\ walks[1] = "blocked"
    /\ walks[2] = "done"
    /\ walks[3] = "none"
    /\ pausedEvents = 3

\* an order of the locks: a goroutine that holds one takes only later ones
C38_Rank ==
    [l \in Mutexes |->
        CASE l = "Mouse" -> 1
          [] l = "Keyboard" -> 2
          [] l = "jsCtxLock" -> 2
          [] l = "helpersLock" -> 3
          [] l = "targetsLock" -> 1]

\* a goroutine that waits for a lock holds only locks that come before it, and
\* a goroutine whose operation has returned holds none
C38_Ordered ==
    \A t \in Lockers :
        /\ (InOperation(t) /\ At(t).k = "lock") =>
                \A l \in Mutexes : mutexes[l] = t => C38_Rank[l] < C38_Rank[At(t).l]
        /\ ~InOperation(t) => \A l \in Mutexes : mutexes[l] # t

\* some goroutine that is in an operation can go on: it is not at a Lock of a
\* mutex that is held
C38_Progress ==
    (\E t \in Lockers : InOperation(t)) =>
        \E t \in Lockers :
            InOperation(t) /\ (At(t).k = "lock" => mutexes[At(t).l] = 0)

\* C38: the locks are taken in an acyclic order, every lock that is taken is
\* released when the operation returns, on its error paths too, and the
\* goroutines never all wait for one another, provided remote calls return.
C38_NoDeadlock == C38_Ordered /\ C38_Progress

\* a goroutine in Mouse.Move holds the Mouse mutex and jsCtxLock and waits for
\* helpersLock, which another goroutine holds
C38_Witness ==
    \E t, u \in Lockers :
        /\ InOperation(t) /\ At(t).k = "lock" /\ At(t).l = "helpersLock"
        /\ mutexes["Mouse"] = t /\ mutexes["jsCtxLock"] = t
        /\ mutexes["helpersLock"] = u /\ u # t

\* every message the callback was called with has the callback's method and,
\* for a wait on a session, the session waited for
C39_Dispatched ==
    \A n \in 1 .. Len(wt.seen) :
        /\ emitted[wt.seen[n]].method = LoadEventFired
        /\ wt.sessionID = 0 \/ emitted[wt.seen[n]].session = wt.sessionID

\* the loop of the wait function ends in a step in which the callback was
\* called and returned true, or with the scope ended; a callback that returned
\* true ends it at once
C39_StopsOnTrue ==
    /\ (wt.pc = "range" /\ wt'.pc = "defer") =>
            \/ Len(wt'.seen) = Len(wt.seen) + 1 /\ wt'.res = "true"
            \/ wt.scope /\ wt'.seen = wt.seen
    /\ (wt.pc = "range" /\ Len(wt'.seen) = Len(wt.seen) + 1) =>
            (wt'.pc = "defer" <=> wt'.res = "true")

\* C39: a message is passed to the callback only if its method is the
\* callback's event and, for a session-scoped wait, its session is the waited
\* one; the wait function returns as soon as the callback returns true, never
\* because of a callback that returns false or nothing, and otherwise only when
\* its scope ends.
C39_DispatchAndStop == []C39_Dispatched /\ [][C39_StopsOnTrue]_vars

\* a wait on session 1 has returned, its scope not ended: the callback saw the
\* second event only, the first one being of another session, and returned true
C39_Witness ==
    /\ wt.pc = "returned"
    /\ ~wt.scope
    /\ wt.sessionID = 1
    /\ wt.kind = "EachEvent"
    /\ Len(emitted) = 2 /\ emitted[1].session = 2
    /\ wt.seen = <<2>>
    /\ wt.res = "true"

\* the callbacks run so far, over all branches
C40_Ran == Cardinality({b \in 1 .. MaxBranches : race.ran[b] > 0})

\* the branches are tried in registration order, no callback runs twice and
\* none but the winner's runs; when Do has returned an element it is that of
\* the first branch found in the last round, every branch before it was not
\* found, and the error is the callback's; when it has returned another error
\* no element is returned and no callback has run
C40_Winner ==
    /\ Len(race.outs) <= Len(branches)
    /\ race.pc = "round" => race.i = Len(race.outs) + 1
    /\ \A b \in 1 .. MaxBranches : race.ran[b] <= 1
    /\ C40_Ran <= 1
    /\ \A n \in 1 .. Len(race.outs) - 1 : race.outs[n] = "notfound"
    /\ (race.pc = "done" /\ race.el # 0) =>
            /\ race.outs[race.el] = "found" /\ Len(race.outs) = race.el
            /\ race.ran[race.el] = IF branches[race.el].callback THEN 1 ELSE 0
            /\ \A b \in 1 .. MaxBranches : b # race.el => race.ran[b] = 0
            /\ race.err \in {"nil", "callback"}
            /\ race.err = "callback" => branches[race.el].callback
    /\ (race.pc = "done" /\ race.el = 0) =>
            /\ C40_Ran = 0
            /\ race.err \in {"err", "cancelled"}
            /\ race.err = "err" => race.outs[Len(race.outs)] = "err"
            /\ race.err = "cancelled" =>
                    raceScope /\ \A n \in 1 .. Len(race.outs) : race.outs[n] = "notfound"

\* a new round begins only when no branch of the round before has matched, and
\* Do does not return for a round without a match unless the scope has ended
C40_Retried ==
    /\ (race.pc = "sleep" /\ race'.pc = "round") =>
            /\ ~raceScope
            /\ Len(race.outs) = Len(branches)
            /\ \A n \in 1 .. Len(race.outs) : race.outs[n] = "notfound"
    /\ (race.pc = "sleep" /\ race'.pc = "done") => raceScope

\* C40: in each round the branches are tried in registration order; the first
\* branch whose element is present wins, only its callback is run, exactly
\* once, and Do returns that element with the callback's error; another branch
\* error ends the race at once with that error; with no match the round is
\* retried until the page's scope ends, and then Do returns.
C40_OneWinner ==
    /\ []C40_Winner
    /\ [][C40_Retried]_vars
    /\ (raceScope ~> race.pc = "done")

\* the second branch has won in a later round, after the first branch was not
\* found, and Do has returned its element with the error of its callback
C40_Witness ==
    /\ race.pc = "done"
    /\ race.round = 2
    /\ race.el = 2
    /\ race.outs = <<"notfound", "found">>
    /\ race.err = "callback"
    /\ race.ran = [b \in 1 .. MaxBranches |-> IF b = 2 THEN 1 ELSE 0]
    /\ branches[1].callback

=============================================================================
